---- MODULE Spec2Model ----
(***************************************************************************)
(* Model of the instruction-driven spreadsheet transformation of           *)
(* transfora/EMP: ExcelProcessor.process_file (column projection),         *)
(* ExcelProcessor._apply_replace_rules (replace-rule engine) and the       *)
(* pandas operations they rest on.                                         *)
(*                                                                         *)
(* Text is a sequence of one-character strings, so that lower(), strip()   *)
(* and str() are computed character by character.  The lexer accepts only  *)
(* ASCII inside strings, so the Cyrillic literals of the source are        *)
(* transliterated letter by letter, keeping their letter case:             *)
(*   'проект' -> proekt,  'Заявка' -> Zayavka,                             *)
(*   'Экспедитор' -> Ekspeditor,  'ООО ТРАНСФОРА' -> OOO TRANSFORA.        *)
(*                                                                         *)
(* pandas semantics assumed (pandas 1.x / 2.x):                            *)
(*   - pd.DataFrame() has no columns and an empty index;                   *)
(*   - frame[key] = scalar broadcasts the scalar over the frame's index    *)
(*     (zero cells when the index is empty);                               *)
(*   - frame[key] = series, when the frame's index is empty and the series *)
(*     is not, first re-indexes the frame to the series' index, filling    *)
(*     every existing column with NaN (DataFrame._ensure_valid_index);     *)
(*   - frame.loc[mask, key] = scalar writes the scalar into the rows of    *)
(*     the mask, up-casting the column when needed;                        *)
(*   - series.astype(str) is str() of every cell, 'nan' for NaN.           *)
(***************************************************************************)
EXTENDS Integers, Sequences, FiniteSets, TLC

VARIABLES
    instructions,      \* self.instructions: [columns, replace_rules]
    df,                \* the input table read by pd.read_excel
    result_df,         \* the output table under construction
    processing_stats,  \* self.processing_stats
    pc,                \* position in process_file
    ci,                \* index of the next col_config of the for loop (line 95)
    ri,                \* index of the next rule of the for loop (line 259)
    rules_applied,     \* local counter of _apply_replace_rules (line 258)
    col_log,           \* history: per col_config handled, the input column it was
                       \* copied from (the log line 137/139), None otherwise
    hist,              \* history: result_df as it was before each rule handled
    file_content,      \* the instruction document get_processing_instructions
                       \* downloads, None when the instruction set is given
    directives,        \* the styling _apply_formatting_v8 gave the output sheet
    emails_with_excel, \* the unread emails get_unread_emails_with_excel returns
    fetched,           \* history: get_unread_emails_with_excel has been called
    ei,                \* index of the email of the loop of main.py line 157
    ai,                \* index of the attachment of the loop of main.py line 161
    attempts,          \* history: per attachment handled, whether process_file
                       \* returned and how the sending ended
    processed_files,   \* processed_files of process_emails
    seen,              \* the uids flagged \Seen in the mailbox
    outbox,            \* the messages the SMTP server accepted
    files,             \* the files of the temporary directory: path -> content
    clock,             \* datetime.now(), in minutes
    runs               \* the runs of the program that overlap in time

\* the state of process_emails around a call of process_file
loopVars == <<emails_with_excel, fetched, ei, ai, processed_files, seen, outbox>>

vars == <<instructions, df, result_df, processing_stats, pc, ci, ri,
          rules_applied, col_log, hist, file_content, directives,
          loopVars, attempts, files, clock, runs>>

(***************************************************************************)
(* Bounds of the model.                                                    *)
(***************************************************************************)
MaxRows == 1        \* rows of an input table, projection and lookup
MaxInCols == 2      \* columns of an input table
MaxSpecs == 2       \* col_configs of an instruction set
MaxRules == 2       \* replace rules of an instruction set
MaxRuleRows == 2    \* rows of an input table, replace-rule engine

(***************************************************************************)
(* Python values: str, int, bool, float NaN, None and dates.               *)
(***************************************************************************)
S(txt) == [t |-> "str", s |-> txt, n |-> 0]
I(k) == [t |-> "int", s |-> <<>>, n |-> k]
B(b) == [t |-> "bool", s |-> <<>>, n |-> IF b THEN 1 ELSE 0]
NaN == [t |-> "nan", s |-> <<>>, n |-> 0]
None == [t |-> "none", s |-> <<>>, n |-> 0]

\* the outcome of an expression that raises an exception
Raised == [t |-> "raise", s |-> <<>>, n |-> 0]

EmptyStr == S(<<>>)

DigitChar(d) == <<"0", "1", "2", "3", "4", "5", "6", "7", "8", "9">>[d + 1]

RECURSIVE Digits(_)
Digits(k) == IF k < 10 THEN <<DigitChar(k)>>
             ELSE Digits(k \div 10) \o <<DigitChar(k % 10)>>

\* a date value (datetime / Timestamp): n = year * 10000 + month * 100 + day,
\* the three fields the formatter reads
D(y, m, d) == [t |-> "date", s |-> <<>>, n |-> y * 10000 + m * 100 + d]
YearOf(v) == v.n \div 10000
MonthOf(v) == (v.n \div 100) % 100
DayOf(v) == v.n % 100

\* f"{k:02d}"
Pad2(k) == IF k < 10 THEN <<"0">> \o Digits(k) ELSE Digits(k)

\* str() of a date value: 'YYYY-MM-DD 00:00:00'
StrOfDate(v) ==
    Digits(YearOf(v)) \o <<"-">> \o Pad2(MonthOf(v)) \o <<"-">> \o Pad2(DayOf(v))
        \o <<" ", "0", "0", ":", "0", "0", ":", "0", "0">>

\* str(v)
Str(v) == CASE v.t = "str" -> v.s
            [] v.t = "int" -> Digits(v.n)
            [] v.t = "nan" -> <<"n", "a", "n">>
            [] v.t = "date" -> StrOfDate(v)
            [] v.t = "bool" -> IF v.n = 1 THEN <<"T", "r", "u", "e">>
                               ELSE <<"F", "a", "l", "s", "e">>
            [] OTHER -> <<"N", "o", "n", "e">>

\* bool(v): the truth value Python's `if v:` and `v if v else w` use
Truthy(v) == CASE v.t = "str" -> v.s # <<>>
               [] v.t = "int" -> v.n # 0
               [] v.t = "bool" -> v.n # 0
               [] v.t = "nan" -> TRUE
               [] v.t = "date" -> TRUE
               [] OTHER -> FALSE

UpperToLower == [c \in {"A", "B", "C", "D", "E", "F", "G", "H", "I", "J", "K", "L", "M",
                        "N", "O", "P", "Q", "R", "S", "T", "U", "V", "W", "X", "Y", "Z"} |->
    CASE c = "A" -> "a" [] c = "B" -> "b" [] c = "C" -> "c" [] c = "D" -> "d"
      [] c = "E" -> "e" [] c = "F" -> "f" [] c = "G" -> "g" [] c = "H" -> "h"
      [] c = "I" -> "i" [] c = "J" -> "j" [] c = "K" -> "k" [] c = "L" -> "l"
      [] c = "M" -> "m" [] c = "N" -> "n" [] c = "O" -> "o" [] c = "P" -> "p"
      [] c = "Q" -> "q" [] c = "R" -> "r" [] c = "S" -> "s" [] c = "T" -> "t"
      [] c = "U" -> "u" [] c = "V" -> "v" [] c = "W" -> "w" [] c = "X" -> "x"
      [] c = "Y" -> "y" [] c = "Z" -> "z"]

\* str.lower()
Lower(txt) == [k \in 1..Len(txt) |->
                 IF txt[k] \in DOMAIN UpperToLower THEN UpperToLower[txt[k]] ELSE txt[k]]

RECURSIVE LStrip(_)
LStrip(txt) == IF txt # <<>> /\ Head(txt) = " " THEN LStrip(Tail(txt)) ELSE txt

RECURSIVE RStrip(_)
RStrip(txt) == IF txt # <<>> /\ txt[Len(txt)] = " "
               THEN RStrip(SubSeq(txt, 1, Len(txt) - 1)) ELSE txt

\* str.strip()
Strip(txt) == RStrip(LStrip(txt))

(***************************************************************************)
(* Literals of the source.                                                 *)
(***************************************************************************)
ActCreate == S(<<"c", "r", "e", "a", "t", "e">>)
ActCopy == S(<<"c", "o", "p", "y">>)
ColProekt == S(<<"p", "r", "o", "e", "k", "t">>)
ColZayavka == S(<<"Z", "a", "y", "a", "v", "k", "a">>)
ColEkspeditor == S(<<"E", "k", "s", "p", "e", "d", "i", "t", "o", "r">>)
DefaultEkspeditor == S(<<"O", "O", "O", " ", "T", "R", "A", "N", "S", "F", "O", "R", "A">>)

(***************************************************************************)
(* pandas DataFrame: ordered column labels, one cell sequence per column,  *)
(* and the length of the index (a frame without columns still has one).    *)
(***************************************************************************)
EmptyFrame == [columns |-> <<>>, data |-> <<>>, nrows |-> 0]

HasColumn(frame, key) == \E k \in 1..Len(frame.columns) : frame.columns[k] = key

ColPos(frame, key) == CHOOSE k \in 1..Len(frame.columns) : frame.columns[k] = key

\* frame[key]
GetColumn(frame, key) == frame.data[ColPos(frame, key)]

\* fault for C1: the column is appended even when the label exists
PutColumnAppending(frame, key, cells) ==
    [frame EXCEPT !.columns = Append(@, key), !.data = Append(@, cells)]

\* frame[key] = cells, for cells already aligned to the frame's index
PutColumn(frame, key, cells) ==
    IF HasColumn(frame, key)
    THEN [frame EXCEPT !.data[ColPos(frame, key)] = cells]
    ELSE [frame EXCEPT !.columns = Append(@, key), !.data = Append(@, cells)]

\* frame[key] = scalar
SetItemScalar(frame, key, v) ==
    PutColumn(frame, key, [r \in 1..frame.nrows |-> v])

\* DataFrame._ensure_valid_index followed by the re-indexing of the series
SetItemSeries(frame, key, series) ==
    LET grown == IF frame.nrows = 0 /\ Len(series) > 0
                 THEN [columns |-> frame.columns,
                       data |-> [k \in 1..Len(frame.data) |->
                                    [r \in 1..Len(series) |-> NaN]],
                       nrows |-> Len(series)]
                 ELSE frame
        aligned == [r \in 1..grown.nrows |->
                      IF r <= Len(series) THEN series[r] ELSE NaN]
    IN PutColumn(grown, key, aligned)

\* fault for C25: the scalar is written into every row of the column
SetLocEveryRow(frame, mask, key, v) ==
    PutColumn(frame, key, [r \in 1..frame.nrows |-> v])

\* frame.loc[mask, key] = v
SetLoc(frame, mask, key, v) ==
    PutColumn(frame, key,
              [r \in 1..frame.nrows |->
                 IF r \in mask THEN v ELSE GetColumn(frame, key)[r]])

(***************************************************************************)
(* ExcelProcessor._find_column_case_insensitive                            *)
(***************************************************************************)
NameMatches(col, column_name) ==
    Strip(Lower(Str(col))) = Strip(Lower(Str(column_name)))

\* fault for C10: the first column is returned when no label matches
FindColumnOrFirst(frame, column_name) ==
    IF \E k \in 1..Len(frame.columns) : NameMatches(frame.columns[k], column_name)
    THEN frame.columns[CHOOSE k \in 1..Len(frame.columns) :
                          /\ NameMatches(frame.columns[k], column_name)
                          /\ \A j \in 1..(k - 1) :
                                ~NameMatches(frame.columns[j], column_name)]
    ELSE IF frame.columns # <<>> THEN frame.columns[1] ELSE None

FindColumnCaseInsensitive(frame, column_name) ==
    IF \E k \in 1..Len(frame.columns) : NameMatches(frame.columns[k], column_name)
    THEN LET first == CHOOSE k \in 1..Len(frame.columns) :
                        /\ NameMatches(frame.columns[k], column_name)
                        /\ \A j \in 1..(k - 1) :
                              ~NameMatches(frame.columns[j], column_name)
         IN frame.columns[first]
    ELSE None

(***************************************************************************)
(* The date formatter.  NaT is the value NaN.                              *)
(***************************************************************************)
IsLeap(y) == (y % 4 = 0 /\ y % 100 # 0) \/ y % 400 = 0

DaysIn(y, m) == IF m = 2 THEN (IF IsLeap(y) THEN 29 ELSE 28)
                ELSE IF m \in {4, 6, 9, 11} THEN 30 ELSE 31

IsDigit(c) == c \in {"0", "1", "2", "3", "4", "5", "6", "7", "8", "9"}

DigitVal(c) == CHOOSE d \in 0..9 : DigitChar(d) = c

RECURSIVE Num(_)
Num(f) == IF f = <<>> THEN 0
          ELSE Num(SubSeq(f, 1, Len(f) - 1)) * 10 + DigitVal(f[Len(f)])

AllDigits(f) == \A k \in 1..Len(f) : IsDigit(f[k])

\* the fields of txt between occurrences of sep
RECURSIVE SplitOn(_, _)
SplitOn(txt, sep) ==
    IF \E k \in 1..Len(txt) : txt[k] = sep
    THEN LET p == CHOOSE k \in 1..Len(txt) :
                    txt[k] = sep /\ \A j \in 1..(k - 1) : txt[j] # sep
         IN <<SubSeq(txt, 1, p - 1)>> \o SplitOn(SubSeq(txt, p + 1, Len(txt)), sep)
    ELSE <<txt>>

\* strptime directives, as the regular expressions of _strptime.py accept them
FieldY(f) == Len(f) = 4 /\ AllDigits(f)
FieldM(f) == /\ Len(f) \in {1, 2} /\ AllDigits(f) /\ Num(f) \in 1..12
FieldD(f) == \/ Len(f) \in {1, 2} /\ AllDigits(f) /\ Num(f) \in 1..31
             \/ Len(f) = 2 /\ f[1] = " " /\ IsDigit(f[2]) /\ f[2] # "0"
FieldH(f) == Len(f) \in {1, 2} /\ AllDigits(f) /\ Num(f) \in 0..23
FieldMin(f) == Len(f) \in {1, 2} /\ AllDigits(f) /\ Num(f) \in 0..59
FieldSec(f) == Len(f) \in {1, 2} /\ AllDigits(f) /\ Num(f) \in 0..61

NumD(f) == IF f[1] = " " THEN Num(Tail(f)) ELSE Num(f)

\* datetime(y, m, d), or NaN where the constructor raises ValueError
MakeDate(y, m, d) ==
    IF y >= 1 /\ m \in 1..12 /\ d >= 1 /\ d <= DaysIn(y, m) THEN D(y, m, d) ELSE NaN

\* datetime.strptime(txt, fmt) for the date-only candidate formats;
\* order names the fields, sep the separator; NaN stands for ValueError
Strptime(txt, order, sep) ==
    LET f == SplitOn(txt, sep)
    IN IF Len(f) # 3 THEN NaN
       ELSE CASE order = "YMD" ->
                   IF FieldY(f[1]) /\ FieldM(f[2]) /\ FieldD(f[3])
                   THEN MakeDate(Num(f[1]), Num(f[2]), NumD(f[3])) ELSE NaN
              [] order = "DMY" ->
                   IF FieldD(f[1]) /\ FieldM(f[2]) /\ FieldY(f[3])
                   THEN MakeDate(Num(f[3]), Num(f[2]), NumD(f[1])) ELSE NaN
              [] OTHER ->
                   IF FieldM(f[1]) /\ FieldD(f[2]) /\ FieldY(f[3])
                   THEN MakeDate(Num(f[3]), Num(f[1]), NumD(f[2])) ELSE NaN

ValidTime(txt) ==
    LET f == SplitOn(txt, ":")
    IN Len(f) = 3 /\ FieldH(f[1]) /\ FieldMin(f[2]) /\ FieldSec(f[3])

\* datetime.strptime(txt, '%Y-%m-%d %H:%M:%S'): a date, one or more blanks, a time
StrptimeDateTime(txt) ==
    LET Cut(p, q) == /\ p < q
                     /\ \A k \in p..(q - 1) : txt[k] = " "
                     /\ Strptime(SubSeq(txt, 1, p - 1), "YMD", "-") # NaN
                     /\ ValidTime(SubSeq(txt, q, Len(txt)))
                     /\ Num(SplitOn(SubSeq(txt, q, Len(txt)), ":")[3]) <= 59
        cuts == {pq \in (1..Len(txt)) \X (1..Len(txt)) : Cut(pq[1], pq[2])}
    IN IF cuts = {} THEN NaN
       ELSE LET pq == CHOOSE c \in cuts : TRUE
            IN Strptime(SubSeq(txt, 1, pq[1] - 1), "YMD", "-")

\* the for loop of lines 193-197 over the outcomes of the candidate formats:
\* the first that is a date, NaN when the loop ends without a break
FirstParsed(tries) ==
    IF \E k \in 1..Len(tries) : tries[k] # NaN
    THEN tries[CHOOSE k \in 1..Len(tries) :
                 tries[k] # NaN /\ \A j \in 1..(k - 1) : tries[j] = NaN]
    ELSE NaN

\* fault for C13: '%m/%d/%Y' is tried before '%d/%m/%Y'
ParseCandidatesMonthFirst(txt) ==
    FirstParsed(<<Strptime(txt, "YMD", "-"), Strptime(txt, "DMY", "."),
                  Strptime(txt, "MDY", "/"), Strptime(txt, "DMY", "/"),
                  StrptimeDateTime(txt)>>)

\* the for/else of lines 192-197: the first candidate format that parses
ParseCandidates(txt) ==
    FirstParsed(<<Strptime(txt, "YMD", "-"), Strptime(txt, "DMY", "."),
                  Strptime(txt, "DMY", "/"), Strptime(txt, "MDY", "/"),
                  StrptimeDateTime(txt)>>)

\* pd.to_datetime(txt, errors='coerce') for a text no candidate format parses.
\* Modelled subset of the lenient inference: a year-first date written with
\* '/' separators is recognised, any other text is NaT.
LenientParse(txt) == Strptime(txt, "YMD", "/")

\* pd.to_datetime(v) for a cell that is not a str: a date is itself, an
\* integer counts nanoseconds from 1970-01-01, a bool raises TypeError
ToDatetime(v) == CASE v.t = "date" -> v
                   [] v.t = "int" -> D(1970, 1, 1)
                   [] v.t = "bool" -> Raised
                   [] OTHER -> NaN

FmtDMYDot == <<"D", "D", ".", "M", "M", ".", "Y", "Y", "Y", "Y">>
FmtDMYSlash == <<"D", "D", "/", "M", "M", "/", "Y", "Y", "Y", "Y">>
FmtDMYDash == <<"D", "D", "-", "M", "M", "-", "Y", "Y", "Y", "Y">>
FmtYMD == <<"Y", "Y", "Y", "Y", "-", "M", "M", "-", "D", "D">>
FmtMDY == <<"M", "M", "/", "D", "D", "/", "Y", "Y", "Y", "Y">>
FmtDMMMY == <<"D", "D", " ", "M", "M", "M", " ", "Y", "Y", "Y", "Y">>
FmtDMMMMY == <<"D", "D", " ", "M", "M", "M", "M", " ", "Y", "Y", "Y", "Y">>
LocRu == <<"r", "u">>
LocEn == <<"e", "n">>
SufFull == <<"_", "f", "u", "l", "l">>

MonthsRu == <<<<"y", "a", "n", "v">>, <<"f", "e", "v">>, <<"m", "a", "r">>,
    <<"a", "p", "r">>, <<"m", "a", "j">>, <<"i", "y", "u", "n">>,
    <<"i", "y", "u", "l">>, <<"a", "v", "g">>, <<"s", "e", "n">>,
    <<"o", "k", "t">>, <<"n", "o", "y", "a">>, <<"d", "e", "k">>>>

MonthsRuFull == <<<<"y", "a", "n", "v", "a", "r", "y", "a">>,
    <<"f", "e", "v", "r", "a", "l", "y", "a">>, <<"m", "a", "r", "t", "a">>,
    <<"a", "p", "r", "e", "l", "y", "a">>, <<"m", "a", "y", "a">>,
    <<"i", "y", "u", "n", "y", "a">>, <<"i", "y", "u", "l", "y", "a">>,
    <<"a", "v", "g", "u", "s", "t", "a">>,
    <<"s", "e", "n", "t", "y", "a", "b", "r", "y", "a">>,
    <<"o", "k", "t", "y", "a", "b", "r", "y", "a">>,
    <<"n", "o", "y", "a", "b", "r", "y", "a">>,
    <<"d", "e", "k", "a", "b", "r", "y", "a">>>>

MonthsEn == <<<<"J", "a", "n">>, <<"F", "e", "b">>, <<"M", "a", "r">>,
    <<"A", "p", "r">>, <<"M", "a", "y">>, <<"J", "u", "n">>, <<"J", "u", "l">>,
    <<"A", "u", "g">>, <<"S", "e", "p">>, <<"O", "c", "t">>, <<"N", "o", "v">>,
    <<"D", "e", "c">>>>

MonthsEnFull == <<<<"J", "a", "n", "u", "a", "r", "y">>,
    <<"F", "e", "b", "r", "u", "a", "r", "y">>, <<"M", "a", "r", "c", "h">>,
    <<"A", "p", "r", "i", "l">>, <<"M", "a", "y">>, <<"J", "u", "n", "e">>,
    <<"J", "u", "l", "y">>, <<"A", "u", "g", "u", "s", "t">>,
    <<"S", "e", "p", "t", "e", "m", "b", "e", "r">>,
    <<"O", "c", "t", "o", "b", "e", "r">>,
    <<"N", "o", "v", "e", "m", "b", "e", "r">>,
    <<"D", "e", "c", "e", "m", "b", "e", "r">>>>

\* self.month_names.get(key, default)
MonthNamesGet(key, default) ==
    CASE key = LocRu -> MonthsRu
      [] key = LocRu \o SufFull -> MonthsRuFull
      [] key = LocEn -> MonthsEn
      [] key = LocEn \o SufFull -> MonthsEnFull
      [] OTHER -> default

\* fault for C14: day and month are written without zero padding
RenderDateUnpadded(parsed, date_format, date_locale) ==
    LET day == Digits(DayOf(parsed))
        month == Digits(MonthOf(parsed))
        year == Digits(YearOf(parsed))
        fmt == Str(date_format)
    IN CASE fmt = FmtDMYDot -> day \o <<".">> \o month \o <<".">> \o year
         [] fmt = FmtDMYSlash -> day \o <<"/">> \o month \o <<"/">> \o year
         [] fmt = FmtDMYDash -> day \o <<"-">> \o month \o <<"-">> \o year
         [] fmt = FmtYMD -> year \o <<"-">> \o month \o <<"-">> \o day
         [] fmt = FmtMDY -> month \o <<"/">> \o day \o <<"/">> \o year
         [] fmt = FmtDMMMY ->
              day \o <<" ">>
                  \o MonthNamesGet(Str(date_locale), MonthsRu)[MonthOf(parsed)]
                  \o <<" ">> \o year
         [] fmt = FmtDMMMMY ->
              day \o <<" ">>
                  \o MonthNamesGet(Str(date_locale) \o SufFull,
                                   MonthsRuFull)[MonthOf(parsed)]
                  \o <<" ">> \o year
         [] OTHER -> day \o <<".">> \o month \o <<".">> \o year

\* lines 210-233: rendering of a parsed date
RenderDate(parsed, date_format, date_locale) ==
    LET day == Pad2(DayOf(parsed))
        month == Pad2(MonthOf(parsed))
        year == Digits(YearOf(parsed))
        fmt == Str(date_format)
    IN CASE fmt = FmtDMYDot -> day \o <<".">> \o month \o <<".">> \o year
         [] fmt = FmtDMYSlash -> day \o <<"/">> \o month \o <<"/">> \o year
         [] fmt = FmtDMYDash -> day \o <<"-">> \o month \o <<"-">> \o year
         [] fmt = FmtYMD -> year \o <<"-">> \o month \o <<"-">> \o day
         [] fmt = FmtMDY -> month \o <<"/">> \o day \o <<"/">> \o year
         [] fmt = FmtDMMMY ->
              day \o <<" ">>
                  \o MonthNamesGet(Str(date_locale), MonthsRu)[MonthOf(parsed)]
                  \o <<" ">> \o year
         [] fmt = FmtDMMMMY ->
              day \o <<" ">>
                  \o MonthNamesGet(Str(date_locale) \o SufFull,
                                   MonthsRuFull)[MonthOf(parsed)]
                  \o <<" ">> \o year
         [] OTHER -> day \o <<".">> \o month \o <<".">> \o year

\* lines 198-200: parsed_date when the candidate formats gave none
OrLenient(parsed_date, txt) ==
    IF parsed_date # NaN THEN parsed_date ELSE LenientParse(txt)

\* lines 190-202: parsed_date of a cell, Raised when pd.to_datetime raises
ParseDateValue(date_value) ==
    IF date_value.t = "str"
    THEN OrLenient(ParseCandidates(date_value.s), date_value.s)
    ELSE ToDatetime(date_value)

\* lines 201-233: the string returned for parsed_date
RenderParsed(parsed, date_value, date_format, date_locale) ==
    IF parsed = Raised THEN Raised
    ELSE IF parsed = NaN THEN S(Str(date_value))
    ELSE S(RenderDate(parsed, date_format, date_locale))

\* the body of the try block of lines 188-233: the string returned, or Raised
\* when an exception leaves the block
TryFormatDate(date_value, date_format, date_locale) ==
    RenderParsed(ParseDateValue(date_value), date_value, date_format, date_locale)

\* lines 235-237: the except clause returns str(date_value)
OrOriginal(returned, date_value) ==
    IF returned = Raised THEN S(Str(date_value)) ELSE returned

\* fault for C12: the except clause of lines 235-237 is missing
FormatSingleDateUnguarded(date_value, date_format, date_locale) ==
    IF date_value.t \in {"nan", "none"}
    THEN EmptyStr
    ELSE TryFormatDate(date_value, date_format, date_locale)

\* format_single_date (lines 184-237)
FormatSingleDate(date_value, date_format, date_locale) ==
    IF date_value.t \in {"nan", "none"}
    THEN EmptyStr
    ELSE OrOriginal(TryFormatDate(date_value, date_format, date_locale), date_value)

\* lines 239-247: the formatted series, and the series as it came when an
\* exception left the apply
OrSeries(formatted_series, series) ==
    IF \E r \in 1..Len(formatted_series) : formatted_series[r] = Raised
    THEN series
    ELSE formatted_series

\* _format_date_column (lines 171-247): series.apply(format_single_date), and
\* the series as it came when an exception leaves the apply
FormatDateColumn(series, date_format, date_locale) ==
    OrSeries([r \in 1..Len(series) |->
                 FormatSingleDate(series[r], date_format, date_locale)],
             series)

(***************************************************************************)
(* ExcelProcessor.process_file, one col_config of the loop of lines 95-145 *)
(***************************************************************************)
\* lines 124-125: the input column a copy is taken from, None when the
\* warning branch of line 143 is taken
ResolvedSource(input, cfg) ==
    LET source_col == FindColumnCaseInsensitive(input, cfg.source_name)
    IN IF Truthy(source_col) THEN source_col ELSE None

\* result_df after the col_config has been handled
ProjectColumn(frame, input, cfg) ==
    IF cfg.action = ActCreate
    THEN (IF cfg.target_name = ColProekt
          THEN SetItemScalar(frame, cfg.target_name, EmptyStr)
          ELSE IF cfg.target_name = ColEkspeditor
          THEN SetItemScalar(frame, cfg.target_name,
                             IF Truthy(cfg.value) THEN cfg.value ELSE DefaultEkspeditor)
          ELSE SetItemScalar(frame, cfg.target_name,
                             IF Truthy(cfg.value) THEN cfg.value ELSE EmptyStr))
    ELSE IF cfg.action = ActCopy \/ cfg.action = None
    THEN LET source_col == ResolvedSource(input, cfg)
         IN IF source_col # None
            THEN LET copied == SetItemSeries(frame, cfg.target_name,
                                             GetColumn(input, source_col))
                 IN IF cfg.is_date
                    THEN SetItemSeries(copied, cfg.target_name,
                            FormatDateColumn(GetColumn(copied, cfg.target_name),
                                             cfg.date_format, cfg.date_locale))
                    ELSE copied
            ELSE SetItemScalar(frame, cfg.target_name, EmptyStr)
    ELSE frame

\* processing_stats after the col_config has been handled
StatsAfterColumn(stats, input, cfg) ==
    IF cfg.action = ActCreate
    THEN [stats EXCEPT !.created_columns = @ + 1]
    ELSE IF /\ cfg.action = ActCopy \/ cfg.action = None
            /\ ResolvedSource(input, cfg) # None
            /\ cfg.is_date
    THEN [stats EXCEPT !.formatted_date_columns = @ + 1]
    ELSE stats

(***************************************************************************)
(* ExcelProcessor._apply_replace_rules, one rule of the loop of lines      *)
(* 259-292                                                                 *)
(***************************************************************************)
\* mask = df[target_col].astype(str) == str(find_value)
MatchMask(frame, target_col, find_value) ==
    {r \in 1..frame.nrows :
        Str(GetColumn(frame, target_col)[r]) = Str(find_value)}

\* fault for C11: the cells are compared with findValue without regard to
\* letter case
RuleMaskIgnoringCase(frame, rule) ==
    LET target_col == FindColumnCaseInsensitive(frame, rule.column)
    IN IF ~Truthy(target_col) THEN {}
       ELSE {r \in 1..frame.nrows :
               Lower(Str(GetColumn(frame, target_col)[r])) = Lower(Str(rule.find_value))}

\* the rows the rule matches: empty when its column is not found
RuleMask(frame, rule) ==
    LET target_col == FindColumnCaseInsensitive(frame, rule.column)
    IN IF ~Truthy(target_col) THEN {}
       ELSE MatchMask(frame, target_col, rule.find_value)

\* fault for C9: a rule counts as applied as soon as its column resolves
RuleAppliedWhenResolved(frame, rule) ==
    Truthy(FindColumnCaseInsensitive(frame, rule.column))

\* lines 274-276 and 289: the rule counts as applied
RuleApplied(frame, rule) == RuleMask(frame, rule) # {}

\* fault for C8: the side-effect columns are looked up without regard to
\* letter case
ApplyRuleAnyCase(frame, rule) ==
    LET target_col == FindColumnCaseInsensitive(frame, rule.column)
        mask == RuleMask(frame, rule)
        proekt == FindColumnCaseInsensitive(frame, ColProekt)
        zayavka == FindColumnCaseInsensitive(frame, ColZayavka)
    IN IF ~Truthy(target_col) \/ mask = {}
       THEN frame
       ELSE LET replaced == SetLoc(frame, mask, target_col, rule.replace_value)
                project == IF Truthy(rule.project_value) /\ proekt # None
                           THEN SetLoc(replaced, mask, proekt, rule.project_value)
                           ELSE replaced
            IN IF Truthy(rule.project_value2) /\ zayavka # None
               THEN SetLoc(project, mask, zayavka, rule.project_value2)
               ELSE project

\* the frame after the rule has been handled
ApplyRule(frame, rule) ==
    LET target_col == FindColumnCaseInsensitive(frame, rule.column)
        mask == RuleMask(frame, rule)
    IN IF ~Truthy(target_col) \/ mask = {}
       THEN frame
       ELSE LET replaced == SetLoc(frame, mask, target_col, rule.replace_value)
                project == IF Truthy(rule.project_value) /\ HasColumn(replaced, ColProekt)
                           THEN SetLoc(replaced, mask, ColProekt, rule.project_value)
                           ELSE replaced
            IN IF Truthy(rule.project_value2) /\ HasColumn(project, ColZayavka)
               THEN SetLoc(project, mask, ColZayavka, rule.project_value2)
               ELSE project

\* _apply_replace_rules, the whole loop: the frame it leaves
RECURSIVE ApplyReplaceRules(_, _)
ApplyReplaceRules(frame, rules) ==
    IF rules = <<>> THEN frame
    ELSE ApplyReplaceRules(ApplyRule(frame, Head(rules)), Tail(rules))

\* _apply_replace_rules, the whole loop: the value of rules_applied at line 294
RECURSIVE CountAppliedRules(_, _)
CountAppliedRules(frame, rules) ==
    IF rules = <<>> THEN 0
    ELSE (IF RuleApplied(frame, Head(rules)) THEN 1 ELSE 0)
            + CountAppliedRules(ApplyRule(frame, Head(rules)), Tail(rules))

(***************************************************************************)
(* OneDriveHandler: the instruction workbook and its parser.  A sheet is   *)
(* the sequence of its rows as iter_rows(values_only=True) yields them,    *)
(* every row a tuple of the sheet's width, the header row first; an empty  *)
(* cell is None.  A dict is the sequence of its (key, value) pairs in      *)
(* insertion order.  'да' is transliterated as da.                         *)
(***************************************************************************)
\* sub in txt
Contains(sub, txt) ==
    \E k \in 0..(Len(txt) - Len(sub)) : SubSeq(txt, k + 1, k + Len(sub)) = sub

\* str.upper()
Upper(txt) == [k \in 1..Len(txt) |->
                 IF \E u \in DOMAIN UpperToLower : UpperToLower[u] = txt[k]
                 THEN CHOOSE u \in DOMAIN UpperToLower : UpperToLower[u] = txt[k]
                 ELSE txt[k]]

\* str.replace(c, '')
RECURSIVE RemoveChar(_, _)
RemoveChar(txt, c) ==
    IF txt = <<>> THEN <<>>
    ELSE IF Head(txt) = c THEN RemoveChar(Tail(txt), c)
    ELSE <<Head(txt)>> \o RemoveChar(Tail(txt), c)

\* d[key] = value
DictSet(d, key, value) ==
    IF \E k \in 1..Len(d) : d[k][1] = key
    THEN [k \in 1..Len(d) |-> IF d[k][1] = key THEN <<key, value>> ELSE d[k]]
    ELSE Append(d, <<key, value>>)

\* key in d
DictHas(d, key) == \E k \in 1..Len(d) : d[k][1] = key

\* d.get(key, default)
DictGet(d, key, default) ==
    IF DictHas(d, key) THEN d[CHOOSE k \in 1..Len(d) : d[k][1] = key][2] ELSE default

\* a list of str values
L(items) == [t |-> "list", s |-> items, n |-> 0]

KwSource == <<"s", "o", "u", "r", "c", "e">>
KwTarget == <<"t", "a", "r", "g", "e", "t">>
KwAction == <<"a", "c", "t", "i", "o", "n">>
KwValue == <<"v", "a", "l", "u", "e">>
KwDate == <<"d", "a", "t", "e">>
KwFormat == <<"f", "o", "r", "m", "a", "t">>
KwIsDate == <<"i", "s", "_", "d", "a", "t", "e">>
KwIs == <<"i", "s">>
KwFlag == <<"f", "l", "a", "g">>
KwLocale == <<"l", "o", "c", "a", "l", "e">>
KwColor == <<"c", "o", "l", "o", "r">>
KeyVariables == S(<<"v", "a", "r", "i", "a", "b", "l", "e", "s">>)
KeyBodyTemplate == S(<<"b", "o", "d", "y", "_", "t", "e", "m", "p", "l", "a", "t", "e">>)
KeyFontName == S(<<"f", "o", "n", "t", "_", "n", "a", "m", "e">>)
KeyFontSize == S(<<"f", "o", "n", "t", "_", "s", "i", "z", "e">>)
KeyHeaderBackgroundColor == S(<<"h", "e", "a", "d", "e", "r", "_", "b", "a", "c", "k", "g", "r", "o", "u", "n", "d", "_", "c", "o", "l", "o", "r">>)
KeyHeaderTextColor == S(<<"h", "e", "a", "d", "e", "r", "_", "t", "e", "x", "t", "_", "c", "o", "l", "o", "r">>)
KeyCellBackgroundColor == S(<<"c", "e", "l", "l", "_", "b", "a", "c", "k", "g", "r", "o", "u", "n", "d", "_", "c", "o", "l", "o", "r">>)
TrueWords == {<<"t", "r", "u", "e">>, <<"1">>, <<"d", "a">>, <<"y", "e", "s">>, <<"y">>}

\* _parse_boolean_value
ParseBooleanValue(value) ==
    IF value = None THEN FALSE
    ELSE IF value.t = "bool" THEN value.n = 1
    ELSE Strip(Lower(Str(value))) \in TrueWords

\* the elif chain of lines 134-147: the field a header names, "" for none
FieldOfHeader(header) ==
    IF Contains(KwSource, header) THEN "source_name"
    ELSE IF Contains(KwTarget, header) THEN "target_name"
    ELSE IF header = KwAction THEN "action"
    ELSE IF header = KwValue THEN "value"
    ELSE IF Contains(KwDate, header) /\ Contains(KwFormat, header) THEN "date_format"
    ELSE IF \/ header = KwIsDate
            \/ Contains(KwDate, header)
                  /\ (Contains(KwIs, header) \/ Contains(KwFlag, header))
    THEN "is_date"
    ELSE IF Contains(KwLocale, header) THEN "date_locale"
    ELSE ""

HeaderFields == {"source_name", "target_name", "action", "value", "date_format",
                 "is_date", "date_locale"}

\* lines 123-147: header_mapping, the position (from 1) of the column each
\* field is read from, 0 for a field no header names
RECURSIVE HeaderMappingFrom(_, _, _)
HeaderMappingFrom(first_row, i, header_mapping) ==
    IF i > Len(first_row) THEN header_mapping
    ELSE LET field == IF Truthy(first_row[i])
                      THEN FieldOfHeader(Strip(Lower(Str(first_row[i]))))
                      ELSE ""
         IN HeaderMappingFrom(first_row, i + 1,
                IF field = "" THEN header_mapping
                ELSE [header_mapping EXCEPT ![field] = i])

HeaderMapping(first_row) ==
    HeaderMappingFrom(first_row, 1, [f \in HeaderFields |-> 0])

\* header_mapping.get(field, default), as a position from 1
MappingGet(header_mapping, field, default) ==
    IF header_mapping[field] # 0 THEN header_mapping[field] ELSE default

\* lines 156-182: the column_config of one data row
ColumnConfig(row, hm) ==
    LET source == row[MappingGet(hm, "source_name", 1)]
        target == IF Len(row) > 1 /\ Truthy(row[MappingGet(hm, "target_name", 2)])
                  THEN row[MappingGet(hm, "target_name", 2)] ELSE source
        action == IF Len(row) > 2 /\ Truthy(row[MappingGet(hm, "action", 3)])
                  THEN row[MappingGet(hm, "action", 3)] ELSE ActCopy
        value == IF Len(row) > 3 /\ Truthy(row[MappingGet(hm, "value", 4)])
                 THEN row[MappingGet(hm, "value", 4)] ELSE None
        is_date_value == IF hm["is_date"] # 0 /\ Len(row) >= hm["is_date"]
                         THEN row[hm["is_date"]] ELSE None
        date_format_value == IF hm["date_format"] # 0 /\ Len(row) >= hm["date_format"]
                             THEN row[hm["date_format"]] ELSE None
        date_locale_value == IF hm["date_locale"] # 0 /\ Len(row) >= hm["date_locale"]
                             THEN row[hm["date_locale"]] ELSE None
    IN [source_name |-> source, target_name |-> target, action |-> action,
        value |-> value,
        is_date |-> IF hm["is_date"] # 0 THEN ParseBooleanValue(is_date_value)
                    ELSE FALSE,
        date_format |-> IF Truthy(date_format_value) THEN date_format_value
                        ELSE S(FmtDMYDot),
        date_locale |-> IF Truthy(date_locale_value) THEN date_locale_value
                        ELSE S(LocRu)]

\* _parse_columns_sheet_v8_1
ParseColumnsSheet(sheet) ==
    LET hm == HeaderMapping(sheet[1])
        kept == SelectSeq(Tail(sheet),
                          LAMBDA row : Truthy(row[MappingGet(hm, "source_name", 1)]))
    IN [k \in 1..Len(kept) |-> ColumnConfig(kept[k], hm)]

\* the rule of one data row of the sheet 'replace' (lines 213-219)
ReplaceRuleOf(row) ==
    [column |-> row[1], find_value |-> row[2], replace_value |-> row[3],
     project_value |-> IF Len(row) > 3 /\ Truthy(row[4]) THEN row[4] ELSE None,
     project_value2 |-> IF Len(row) > 4 /\ Truthy(row[5]) THEN row[5] ELSE None]

\* line 212: row[0] and row[1] and row[2] reads past the end of the row
\* (IndexError)
ReplaceRowRaises(row) ==
    \/ Truthy(row[1]) /\ Len(row) < 2
    \/ Len(row) = 2 /\ Truthy(row[1]) /\ Truthy(row[2])

\* _parse_replace_sheet raises
ReplaceSheetRaises(sheet) ==
    \E k \in 2..Len(sheet) : ReplaceRowRaises(sheet[k])

\* _parse_replace_sheet: the rules it returns when it does not raise
ParseReplaceSheet(sheet) ==
    LET kept == SelectSeq(Tail(sheet), LAMBDA row : /\ Len(row) >= 3
                                                    /\ Truthy(row[1])
                                                    /\ Truthy(row[2])
                                                    /\ Truthy(row[3]))
    IN [k \in 1..Len(kept) |-> ReplaceRuleOf(kept[k])]

\* lines 231, 258: row[0] and row[1] reads past the end of the row
PairRowRaises(row) == Truthy(row[1]) /\ Len(row) < 2

\* [var.strip() for var in param_value.split(',')]
SplitVariables(txt) ==
    LET parts == SplitOn(txt, ",")
    IN [k \in 1..Len(parts) |-> Strip(parts[k])]

\* _parse_email_sheet_v8 raises: a short row, or param_value.split of a
\* value that is no str (AttributeError)
EmailSheetRaises(sheet) ==
    \E k \in 2..Len(sheet) :
        \/ PairRowRaises(sheet[k])
        \/ /\ Truthy(sheet[k][1]) /\ Truthy(sheet[k][2])
           /\ sheet[k][1] = KeyVariables
           /\ sheet[k][2].t # "str"

\* _parse_email_sheet_v8 from the row at position i on, when it does not raise
RECURSIVE ParseEmailRows(_, _, _)
ParseEmailRows(rows, i, email_template) ==
    IF i > Len(rows) THEN email_template
    ELSE IF ~(Truthy(rows[i][1]) /\ Truthy(rows[i][2]))
    THEN ParseEmailRows(rows, i + 1, email_template)
    ELSE IF rows[i][1] = KeyVariables
    THEN ParseEmailRows(rows, i + 1,
             DictSet(email_template, KeyVariables, L(SplitVariables(rows[i][2].s))))
    ELSE ParseEmailRows(rows, i + 1,
             DictSet(email_template, rows[i][1], rows[i][2]))

\* _parse_email_sheet_v8
ParseEmailSheet(sheet) == ParseEmailRows(Tail(sheet), 1, <<>>)

IsHexDigit(c) ==
    c \in {"0", "1", "2", "3", "4", "5", "6", "7", "8", "9", "A", "B", "C", "D", "E",
           "F", "a", "b", "c", "d", "e", "f"}

\* the digits of an integer literal: hexadecimal digits, single underscores
\* between them
HexDigitsOk(txt) ==
    /\ txt # <<>>
    /\ IsHexDigit(txt[1]) /\ IsHexDigit(txt[Len(txt)])
    /\ \A k \in 1..Len(txt) : IsHexDigit(txt[k]) \/ txt[k] = "_"
    /\ \A k \in 1..(Len(txt) - 1) : ~(txt[k] = "_" /\ txt[k + 1] = "_")

\* int(txt, 16) does not raise ValueError: blanks around, a sign, a prefix
\* 0x or 0X (an underscore may follow it), then the digits
IntBase16Accepts(txt) ==
    LET stripped == Strip(txt)
        unsigned == IF stripped # <<>> /\ stripped[1] \in {"+", "-"}
                    THEN Tail(stripped) ELSE stripped
        prefixed == Len(unsigned) >= 2 /\ unsigned[1] = "0" /\ unsigned[2] \in {"x", "X"}
        after == SubSeq(unsigned, 3, Len(unsigned))
    IN \/ HexDigitsOk(unsigned)
       \/ prefixed /\ HexDigitsOk(IF after # <<>> /\ after[1] = "_"
                                  THEN Tail(after) ELSE after)

\* fault for C17: no default is given when the sheet 'formatting' is absent
NoDefaultFormatting == <<>>

\* _get_default_formatting
GetDefaultFormatting ==
    <<<<KeyFontName, S(<<"C", "a", "l", "i", "b", "r", "i">>)>>,
      <<KeyFontSize, S(<<"1", "0">>)>>,
      <<KeyHeaderBackgroundColor, S(<<"D", "D", "D", "D", "D", "D">>)>>,
      <<KeyHeaderTextColor, S(<<"0", "0", "0", "0", "0", "0">>)>>,
      <<KeyCellBackgroundColor, S(<<"F", "F", "F", "F", "F", "F">>)>>>>

\* _validate_color_value
ValidateColorValue(color_value) ==
    IF ~Truthy(color_value) THEN None
    ELSE LET color_str == Upper(RemoveChar(Str(color_value), "#"))
         IN IF Len(color_str) = 6 /\ IntBase16Accepts(color_str)
            THEN S(color_str) ELSE None

\* _parse_formatting_sheet_v8 raises: a short row, or param_name.lower() of
\* a name that is no str (AttributeError)
FormattingSheetRaises(sheet) ==
    \E k \in 2..Len(sheet) :
        \/ PairRowRaises(sheet[k])
        \/ /\ Truthy(sheet[k][1]) /\ Truthy(sheet[k][2])
           /\ sheet[k][1].t # "str"

\* _parse_formatting_sheet_v8 from the row at position i on, when it does not
\* raise
RECURSIVE ParseFormattingRows(_, _, _)
ParseFormattingRows(rows, i, formatting) ==
    IF i > Len(rows) THEN formatting
    ELSE IF ~(Truthy(rows[i][1]) /\ Truthy(rows[i][2]))
    THEN ParseFormattingRows(rows, i + 1, formatting)
    ELSE ParseFormattingRows(rows, i + 1,
             DictSet(formatting, rows[i][1],
                     IF Contains(KwColor, Lower(rows[i][1].s))
                     THEN ValidateColorValue(rows[i][2]) ELSE rows[i][2]))

\* _parse_formatting_sheet_v8
ParseFormattingSheet(sheet) == ParseFormattingRows(Tail(sheet), 1, <<>>)

\* _validate_instructions_v8_1 raises: `var in template` of a body_template
\* that is no str is a TypeError (line 356)
ValidateRaises(email_template) ==
    /\ DictHas(email_template, KeyBodyTemplate)
    /\ DictGet(email_template, KeyBodyTemplate, None).t # "str"

\* the try block of _parse_instruction_file_v8_1 (lines 69-112): the
\* instruction set, or Raised when an exception leaves the block;
\* load_workbook raises on a file that is no workbook
TryParseInstructionFile(workbook) ==
    IF workbook.status # "ok" THEN Raised
    ELSE LET sheets == workbook.sheets
             present(name) == name \in DOMAIN sheets
         IN IF \/ present("replace") /\ ReplaceSheetRaises(sheets["replace"])
               \/ present("email") /\ EmailSheetRaises(sheets["email"])
               \/ present("formatting") /\ FormattingSheetRaises(sheets["formatting"])
            THEN Raised
            ELSE LET email_template == IF present("email")
                                       THEN ParseEmailSheet(sheets["email"]) ELSE <<>>
                 IN IF ValidateRaises(email_template) THEN Raised
                    ELSE [columns |-> IF present("columns")
                                      THEN ParseColumnsSheet(sheets["columns"]) ELSE <<>>,
                          replace_rules |-> IF present("replace")
                                            THEN ParseReplaceSheet(sheets["replace"])
                                            ELSE <<>>,
                          email_template |-> email_template,
                          formatting |-> IF present("formatting")
                                         THEN ParseFormattingSheet(sheets["formatting"])
                                         ELSE GetDefaultFormatting,
                          variables |-> <<>>]

\* fault for C19: the except clause returns the empty instruction set
ParseInstructionFileEmptyOnError(workbook) ==
    LET instr == TryParseInstructionFile(workbook)
    IN IF instr = Raised
       THEN [columns |-> <<>>, replace_rules |-> <<>>, email_template |-> <<>>,
             formatting |-> <<>>, variables |-> <<>>]
       ELSE instr

\* _parse_instruction_file_v8_1: the except clause of lines 114-116 returns None
ParseInstructionFile(workbook) ==
    LET instr == TryParseInstructionFile(workbook)
    IN IF instr = Raised THEN None ELSE instr

\* get_processing_instructions: requests.get raises when the document cannot
\* be fetched, and the except clause of lines 62-64 returns None
GetProcessingInstructions(workbook) ==
    IF workbook.status = "unreachable" THEN None
    ELSE LET instr == ParseInstructionFile(workbook)
         IN IF instr = Raised THEN None ELSE instr

(***************************************************************************)
(* ExcelProcessor._apply_formatting_v8: the styling written to the output  *)
(* sheet.                                                                  *)
(***************************************************************************)
\* int(v) of line 341, Raised for ValueError and TypeError
IntOf(v) ==
    CASE v.t = "int" -> v
      [] v.t = "bool" -> I(v.n)
      [] v.t = "str" -> IF Strip(v.s) # <<>> /\ AllDigits(Strip(v.s))
                        THEN I(Num(Strip(v.s))) ELSE Raised
      [] OTHER -> Raised

\* openpyxl takes the value as a colour: None, or 6 or 8 hexadecimal digits
\* (Color raises ValueError for any other text)
ColorAccepted(v) ==
    \/ v = None
    \/ /\ v.t = "str"
       /\ Len(v.s) \in {6, 8}
       /\ \A k \in 1..Len(v.s) : IsHexDigit(v.s[k])

\* self.instructions.get('formatting', {})
FormattingOf(instr) ==
    IF "formatting" \in DOMAIN instr THEN instr.formatting ELSE <<>>

\* len(str(cell.value)) of the cells lines 372-373 count: an empty cell (NaN
\* is written as one) and a false value count nothing
CellLength(v) == IF v # NaN /\ Truthy(v) THEN Len(Str(v)) ELSE 0

\* max_length of lines 367-375 for the column at position c, header included
MaxLength(frame, c) ==
    LET lengths == {CellLength(frame.columns[c])}
                      \cup {CellLength(frame.data[c][r]) : r \in 1..frame.nrows}
    IN CHOOSE m \in lengths : \A o \in lengths : o <= m

\* fault for C26: the width has no upper limit
AdjustedWidthUnbounded(max_length) ==
    IF max_length + 2 > 10 THEN max_length + 2 ELSE 10

\* line 378
AdjustedWidth(max_length) ==
    LET widened == IF max_length + 2 > 10 THEN max_length + 2 ELSE 10
    IN IF widened < 50 THEN widened ELSE 50

\* _apply_formatting_v8: the styling directives, or Raised
ApplyFormatting(instr, frame) ==
    LET formatting == FormattingOf(instr)
        default_font_name == DictGet(formatting, KeyFontName, S(<<"C", "a", "l", "i", "b", "r", "i">>))
        default_font_size == IntOf(DictGet(formatting, KeyFontSize, I(10)))
        header_bg_color == DictGet(formatting, KeyHeaderBackgroundColor,
                                   S(<<"D", "D", "D", "D", "D", "D">>))
        header_text_color == DictGet(formatting, KeyHeaderTextColor,
                                     S(<<"0", "0", "0", "0", "0", "0">>))
        cell_bg_color == DictGet(formatting, KeyCellBackgroundColor,
                                 S(<<"F", "F", "F", "F", "F", "F">>))
        filled == Truthy(cell_bg_color)
                     /\ cell_bg_color # S(<<"F", "F", "F", "F", "F", "F">>)
    IN IF \/ default_font_size = Raised
          \/ filled /\ frame.columns # <<>> /\ ~ColorAccepted(cell_bg_color)
          \/ ~ColorAccepted(header_text_color)
          \/ ~ColorAccepted(header_bg_color)
       THEN Raised
       ELSE [font_name |-> default_font_name,
             font_size |-> default_font_size,
             cell_fill |-> IF filled THEN cell_bg_color ELSE None,
             header_font_color |-> header_text_color,
             header_fill |-> header_bg_color,
             widths |-> [c \in 1..Len(frame.columns) |->
                            AdjustedWidth(MaxLength(frame, c))]]

(***************************************************************************)
(* Inputs: input tables as pd.read_excel delivers them, and instruction    *)
(* sets as OneDriveHandler parses them (source, target, column, find and   *)
(* replace values are never empty: lines 153, 158 and 212 of               *)
(* onedrive_handler_v8.py).                                                *)
(***************************************************************************)
\* sequences without repetition over the set U, of length at most k
RECURSIVE DistinctSeqs(_, _)
DistinctSeqs(U, k) ==
    IF k = 0 THEN {<<>>}
    ELSE LET shorter == DistinctSeqs(U, k - 1)
         IN shorter \cup
            UNION {{Append(q, u) : u \in U \ {q[a] : a \in 1..Len(q)}} : q \in shorter}

\* sequences over the set U, of length at most k
RECURSIVE SeqsUpTo(_, _)
SeqsUpTo(U, k) ==
    IF k = 0 THEN {<<>>}
    ELSE LET shorter == SeqsUpTo(U, k - 1)
         IN shorter \cup {Append(q, u) : q \in shorter, u \in U}

\* the tables with at most maxCols columns labelled from labels and at most
\* maxRows rows of cells from cells; a sheet without header cells gives the
\* empty frame
Tables(labels, cells, maxCols, maxRows) ==
    {EmptyFrame} \cup
    UNION {{[columns |-> cols, data |-> dat, nrows |-> nr] :
               dat \in [1..Len(cols) -> [1..nr -> cells]]} :
           cols \in DistinctSeqs(labels, maxCols) \ {<<>>}, nr \in 0..maxRows}

Cfg(source, target, action, value, is_date) ==
    [source_name |-> source, target_name |-> target, action |-> action,
     value |-> value, is_date |-> is_date,
     date_format |-> S(FmtDMYDot), date_locale |-> S(LocRu)]

Rule(column, find, replace, project, project2) ==
    [column |-> column, find_value |-> find, replace_value |-> replace,
     project_value |-> project, project_value2 |-> project2]

TxtX == <<"x">>
TxtY == <<"y">>
TxtV == <<"v">>
TxtP == <<"P">>
TxtQ == <<"Q">>
TxtR == <<"R">>
TxtW == <<"W">>
ColT == S(<<"T">>)
ColM == S(<<"M">>)
ColD == S(<<"D">>)
ColProektCap == S(<<"P", "r", "o", "e", "k", "t">>)
ActDelete == S(<<"d", "e", "l", "e", "t", "e">>)
SrcA == S(<<"a", " ">>)
SrcAbsent == S(<<"z", "z">>)
SrcZero == S(<<"0">>)

\* column labels and cells of the input tables
InLabels == {S(<<"A">>), S(<<" ", "a">>)}
InCells == {S(TxtX), I(5)}

\* col_configs of the instruction set
ColumnSpecs ==
    {Cfg(SrcA, ColProekt, ActCreate, S(TxtV), FALSE),
     Cfg(SrcA, ColT, ActCreate, S(TxtV), FALSE),
     Cfg(SrcA, ColM, ActCreate, None, FALSE),
     Cfg(SrcA, ColEkspeditor, ActCreate, None, FALSE),
     Cfg(SrcA, ColT, ActCopy, None, FALSE),
     Cfg(SrcA, ColD, ActCopy, None, TRUE),
     Cfg(SrcAbsent, ColM, ActCopy, None, FALSE),
     Cfg(SrcA, ColD, ActDelete, None, FALSE)}

\* replace rules of the instruction set
RuleXY == Rule(S(<<"t", " ">>), S(TxtX), S(TxtY), S(TxtP), None)
RuleYR == Rule(ColT, S(TxtY), S(TxtR), None, S(TxtQ))
RuleFive == Rule(ColT, S(<<"5">>), S(TxtY), None, None)
RuleProekt == Rule(ColProekt, S(TxtP), S(TxtR), S(TxtW), None)
RuleZayavka == Rule(ColZayavka, S(TxtV), S(TxtR), None, S(TxtW))
RuleInputName == Rule(S(<<"A">>), S(TxtX), S(TxtY), S(TxtP), None)

Rules == {RuleXY}

\* inputs of the column lookup: a header cell holding the number 0 is the
\* label 0
LookupLabels == {S(<<"A">>), S(<<" ", "a">>), I(0)}

LookupSpecs ==
    {Cfg(SrcA, ColT, ActCopy, None, FALSE),
     Cfg(SrcZero, ColM, ActCopy, None, FALSE),
     Cfg(SrcAbsent, ColD, ActCopy, None, FALSE)}

\* inputs of the replace-rule engine: one input column, copied as T (renamed)
\* and followed by side-effect columns
EngineLabels == {S(<<"A">>)}

EngineColumnLists ==
    {<<Cfg(SrcA, ColT, ActCopy, None, FALSE),
       Cfg(SrcA, ColProekt, ActCreate, None, FALSE),
       Cfg(SrcA, ColZayavka, ActCreate, S(TxtV), FALSE)>>,
     <<Cfg(SrcA, ColT, ActCopy, None, FALSE),
       Cfg(SrcA, ColProektCap, ActCreate, None, FALSE)>>,
     <<Cfg(SrcA, ColT, ActCopy, None, FALSE),
       Cfg(SrcA, ColProektCap, ActCreate, None, FALSE),
       Cfg(SrcA, ColProekt, ActCreate, None, FALSE)>>,
     <<Cfg(SrcA, ColProekt, ActCreate, None, FALSE),
       Cfg(SrcA, ColT, ActCopy, None, FALSE)>>}

EngineRules == {RuleXY, RuleYR, RuleFive, RuleProekt, RuleZayavka, RuleInputName}

(***************************************************************************)
(* The temporary directory and the mailbox.                                *)
(***************************************************************************)
\* tempfile.NamedTemporaryFile(suffix='.xlsx') of process_file, line 72, for
\* the n-th attachment handled
InputPath(n) == <<"input", n>>

\* tempfile.NamedTemporaryFile(suffix='.xlsx') of _create_output_file_v8,
\* line 308
TempOutputPath(n) == <<"temp_output", n>>

\* lines 303-305 and 322-323: TRANSFORA_dislocation_<timestamp>.xlsx in the
\* temporary directory, the timestamp having the resolution of a minute
OutputPath(minute) == <<"TRANSFORA_dislocation", minute>>

NoFiles == [path \in {} |-> EmptyFrame]

\* a file is written, or moved over the file of the same path
FsWrite(fs, path, content) ==
    [q \in DOMAIN fs \cup {path} |-> IF q = path THEN content ELSE fs[q]]

\* os.unlink(path)
FsUnlink(fs, path) == [q \in DOMAIN fs \ {path} |-> fs[q]]

\* an Excel attachment; readable is false for bytes pd.read_excel rejects
Attachment(content, readable) == [content |-> content, readable |-> readable]

\* an unread email with its Excel attachments
Email(uid, attachments) == [uid |-> uid, attachments |-> attachments]

\* the entry of the attachment being handled
Attempt(email, attachment) ==
    [email |-> email, attachment |-> attachment, returned |-> FALSE,
     output_path |-> <<>>, send |-> "none"]

(***************************************************************************)
(* The state machine: ExcelProcessor.__init__ followed by one call of      *)
(* process_file.                                                           *)
(***************************************************************************)
InitWith(tables, columnLists, ruleLists) ==
    /\ df \in tables
    /\ instructions \in {[columns |-> c, replace_rules |-> r] :
                            c \in columnLists, r \in ruleLists}
    /\ result_df = EmptyFrame
    /\ processing_stats = [processed_rows |-> 0, applied_rules |-> 0,
                           created_columns |-> 0, formatted_date_columns |-> 0]
    /\ pc = "columns"
    /\ ci = 1
    /\ ri = 1
    /\ rules_applied = 0
    /\ col_log = <<>>
    /\ hist = <<>>
    /\ file_content = None
    /\ directives = None
    /\ emails_with_excel = <<Email(1, <<Attachment(df, TRUE)>>)>>
    /\ fetched = TRUE
    /\ ei = 1
    /\ ai = 1
    /\ attempts = <<Attempt(1, 1)>>
    /\ processed_files = <<>>
    /\ seen = {}
    /\ outbox = <<>>
    /\ files = FsWrite(NoFiles, InputPath(1), df)
    /\ clock = 1
    /\ runs = <<>>

Init == InitWith(Tables(InLabels, InCells, MaxInCols, MaxRows),
                 SeqsUpTo(ColumnSpecs, MaxSpecs),
                 SeqsUpTo(Rules, MaxRules))

InitLookup == InitWith(Tables(LookupLabels, InCells, MaxInCols, MaxRows),
                       SeqsUpTo(LookupSpecs, MaxSpecs),
                       SeqsUpTo(Rules, MaxRules))

InitRules == InitWith(Tables(EngineLabels, InCells, MaxInCols, MaxRuleRows),
                      EngineColumnLists,
                      SeqsUpTo(EngineRules, MaxRules))

\* one iteration of the loop of lines 95-145
ProcessColumn ==
    /\ pc = "columns"
    /\ ci <= Len(instructions.columns)
    /\ LET cfg == instructions.columns[ci]
       IN /\ result_df' = ProjectColumn(result_df, df, cfg)
          /\ processing_stats' = StatsAfterColumn(processing_stats, df, cfg)
          /\ col_log' = Append(col_log,
                               IF cfg.action = ActCopy \/ cfg.action = None
                               THEN ResolvedSource(df, cfg) ELSE None)
    /\ ci' = ci + 1
    /\ UNCHANGED <<instructions, df, pc, ri, rules_applied, hist, file_content, directives,
                   loopVars, attempts, files, clock, runs>>

\* lines 147-150 and 258: the loop is over, _apply_replace_rules is entered
CallApplyReplaceRules ==
    /\ pc = "columns"
    /\ ci > Len(instructions.columns)
    /\ pc' = "rules"
    /\ ri' = 1
    /\ rules_applied' = 0
    /\ UNCHANGED <<instructions, df, result_df, processing_stats, ci, col_log, hist,
                   file_content, directives, loopVars, attempts, files, clock, runs>>

\* fault for C6: the rules are taken from the end of the list
ApplyReplaceRuleReversed ==
    /\ pc = "rules"
    /\ ri <= Len(instructions.replace_rules)
    /\ LET rule == instructions.replace_rules[Len(instructions.replace_rules) + 1 - ri]
       IN /\ result_df' = ApplyRule(result_df, rule)
          /\ rules_applied' = IF RuleApplied(result_df, rule)
                              THEN rules_applied + 1 ELSE rules_applied
    /\ hist' = Append(hist, result_df)
    /\ ri' = ri + 1
    /\ UNCHANGED <<instructions, df, processing_stats, pc, ci, col_log, file_content, directives,
                   loopVars, attempts, files, clock, runs>>

\* one iteration of the loop of lines 259-292
ApplyReplaceRule ==
    /\ pc = "rules"
    /\ ri <= Len(instructions.replace_rules)
    /\ LET rule == instructions.replace_rules[ri]
       IN /\ result_df' = ApplyRule(result_df, rule)
          /\ rules_applied' = IF RuleApplied(result_df, rule)
                              THEN rules_applied + 1 ELSE rules_applied
    /\ hist' = Append(hist, result_df)
    /\ ri' = ri + 1
    /\ UNCHANGED <<instructions, df, processing_stats, pc, ci, col_log, file_content, directives,
                   loopVars, attempts, files, clock, runs>>

\* _create_output_file_v8 and line 162 of process_file: the temporary output
\* file of attachment n is created; when the styling succeeds it is moved to the
\* path named after the minute and the temporary input file is removed, when
\* the styling raises both temporary files stay
CreateOutputFile(fs, n, minute, table, styled) ==
    IF styled
    THEN FsWrite(FsUnlink(fs, InputPath(n)), OutputPath(minute), table)
    ELSE FsWrite(fs, TempOutputPath(n), table)

\* lines 294-295 and 153-168: the statistics are stored and the file is written
\* and styled; an exception of the styling leaves process_file
Finish ==
    /\ pc = "rules"
    /\ ri > Len(instructions.replace_rules)
    /\ processing_stats' = [processing_stats EXCEPT
                               !.applied_rules = rules_applied,
                               !.processed_rows = result_df.nrows]
    /\ directives' = ApplyFormatting(instructions, result_df)
    /\ pc' = IF directives' = Raised THEN "raised" ELSE "done"
    /\ attempts' = [attempts EXCEPT
                       ![Len(attempts)].returned = directives' # Raised,
                       ![Len(attempts)].output_path =
                           IF directives' # Raised THEN OutputPath(clock) ELSE <<>>]
    /\ files' = CreateOutputFile(files, Len(attempts), clock, result_df,
                                 directives' # Raised)
    /\ UNCHANGED <<instructions, df, result_df, ci, ri, rules_applied, col_log, hist,
                   file_content, loopVars, clock, runs>>

Next == ProcessColumn \/ CallApplyReplaceRules \/ ApplyReplaceRule \/ Finish

\* process_file over the inputs of the column projection
Spec == Init /\ [][Next]_vars

\* process_file over the inputs of the column lookup
SpecLookup == InitLookup /\ [][Next]_vars

\* process_file over the inputs of the replace-rule engine
SpecRules == InitRules /\ [][Next]_vars

(***************************************************************************)
(* Inputs of the date formatter: one input column 'A' copied as 'D' with   *)
(* is_date set, its cells as pd.read_excel delivers them (text, native     *)
(* dates, numbers, booleans, NaN for an empty cell).                       *)
(***************************************************************************)
MaxDateRows == 2    \* rows of an input table, date formatter

DateCfg(date_format, date_locale) ==
    [Cfg(SrcA, ColD, ActCopy, None, TRUE) EXCEPT
        !.date_format = date_format, !.date_locale = date_locale]

TxtIso == <<"2", "0", "2", "5", "-", "0", "3", "-", "0", "7">>
TxtDot == <<"0", "7", ".", "0", "3", ".", "2", "0", "2", "5">>
TxtDayFirst == <<"0", "3", "/", "0", "4", "/", "2", "0", "2", "5">>
TxtMonthFirst == <<"0", "1", "/", "1", "3", "/", "2", "0", "2", "5">>
TxtIsoTime == <<"2", "0", "2", "5", "-", "0", "3", "-", "0", "7", " ", "1", "0", ":", "2", "0", ":", "3", "0">>
TxtYearSlash == <<"2", "0", "2", "5", "/", "0", "3", "/", "0", "7">>
TxtJunk == <<"a", "b", "c">>
TxtBadIso == <<"2", "0", "2", "5", "-", "1", "3", "-", "4", "5">>
TxtOldIso == <<"0", "9", "9", "9", "-", "0", "1", "-", "0", "1">>
FmtOther == <<"Y", "Y", "Y", "Y", ".", "M", "M", ".", "D", "D">>
LocDe == <<"d", "e">>

DateTexts == {TxtIso, TxtDot, TxtDayFirst, TxtMonthFirst, TxtIsoTime, TxtYearSlash,
              TxtJunk, TxtBadIso, TxtOldIso}

DateCells == {S(txt) : txt \in DateTexts}
                 \cup {NaN, D(2025, 3, 7), D(2025, 11, 23), I(5), B(TRUE)}

ParseFormats == {S(FmtDMYDot), S(FmtYMD), S(FmtOther)}

RenderCells == {D(2025, 3, 7), D(2025, 11, 23), S(TxtDot), NaN}

RenderFormats == {S(FmtDMYDot), S(FmtDMYSlash), S(FmtDMYDash), S(FmtYMD), S(FmtMDY),
                  S(FmtDMMMY), S(FmtDMMMMY), S(FmtOther)}

RenderLocales == {S(LocRu), S(LocEn), S(LocDe), S(LocRu \o SufFull),
                  S(LocEn \o SufFull)}

DateRuleLists == {<<>>, <<RuleXY>>}

InitDates == InitWith(Tables(EngineLabels, DateCells, 1, MaxDateRows),
                      {<<DateCfg(f, S(LocRu))>> : f \in ParseFormats},
                      DateRuleLists)

InitRender == InitWith(Tables(EngineLabels, RenderCells, 1, MaxDateRows),
                       {<<DateCfg(f, l)>> : f \in RenderFormats, l \in RenderLocales},
                       DateRuleLists)

\* process_file over the inputs of the date parser
SpecDates == InitDates /\ [][Next]_vars

\* process_file over the inputs of the date renderer
SpecRender == InitRender /\ [][Next]_vars

(***************************************************************************)
(* Inputs of the instruction parser: the instruction document as           *)
(* get_processing_instructions finds it.  status is "unreachable" when the *)
(* download fails, "corrupt" when the bytes are no workbook load_workbook  *)
(* can open, "ok" otherwise; sheets maps the names of the sheets present   *)
(* to their rows.                                                          *)
(***************************************************************************)
MaxFormatRows == 1    \* data rows of a sheet 'formatting'

HdrColumns == <<S(<<"s", "o", "u", "r", "c", "e", "_", "n", "a", "m", "e">>), S(<<"t", "a", "r", "g", "e", "t", "_", "n", "a", "m", "e">>), S(<<"a", "c", "t", "i", "o", "n">>), S(<<"v", "a", "l", "u", "e">>)>>

ColumnsSheets ==
    {<<HdrColumns, <<SrcA, ColT, None, None>>>>,
     <<HdrColumns, <<SrcA, ColT, None, None>>, <<SrcA, ColProekt, ActCreate, None>>>>,
     <<HdrColumns, <<SrcA, ColT, None, None>>, <<None, ColProekt, ActCreate, None>>>>}

\* sheets 'replace' of five, three, two and one columns
ReplaceSheets ==
    {<<<<S(<<"c", "o", "l", "u", "m", "n">>), S(<<"f", "i", "n", "d">>), S(<<"r", "e", "p", "l", "a", "c", "e">>), S(<<"p", "r", "o", "j", "e", "c", "t">>), S(<<"p", "r", "o", "j", "e", "c", "t", "2">>)>>,
       <<S(<<"t", " ">>), S(TxtX), S(TxtY), S(TxtP), None>>>>,
     <<<<S(<<"c", "o", "l", "u", "m", "n">>), S(<<"f", "i", "n", "d">>), S(<<"r", "e", "p", "l", "a", "c", "e">>)>>,
       <<ColT, S(TxtX), S(TxtY)>>>>,
     <<<<S(<<"c", "o", "l", "u", "m", "n">>), S(<<"f", "i", "n", "d">>)>>, <<ColT, S(TxtX)>>>>,
     <<<<S(<<"c", "o", "l", "u", "m", "n">>), S(<<"f", "i", "n", "d">>)>>, <<ColT, None>>>>,
     <<<<S(<<"c", "o", "l", "u", "m", "n">>)>>, <<ColT>>>>}

HdrPair == <<S(<<"p", "a", "r", "a", "m", "e", "t", "e", "r">>), S(<<"v", "a", "l", "u", "e">>)>>

EmailSheets ==
    {<<HdrPair, <<S(<<"s", "u", "b", "j", "e", "c", "t">>), S(<<"H", "i">>)>>>>,
     <<HdrPair, <<KeyVariables, S(<<"a", ",", " ", "b">>)>>>>,
     <<HdrPair, <<KeyVariables, I(5)>>>>,
     <<HdrPair, <<KeyBodyTemplate, S(<<"H", "i">>)>>>>,
     <<HdrPair, <<KeyBodyTemplate, I(5)>>>>,
     <<<<S(<<"p", "a", "r", "a", "m", "e", "t", "e", "r">>)>>, <<S(<<"s", "u", "b", "j", "e", "c", "t">>)>>>>}

\* values of a colour option
ColorCells ==
    {S(<<"#", "f", "f", "0", "0", "0", "0">>), S(<<"r", "e", "d">>), S(<<"+", "1", "2", "3", "4", "5">>), S(<<"0", "x", "1", "2", "3", "4">>), S(<<"1", "2", "_", "3", "4", "5">>),
     S(<<"1", "#", "2", "3", "4", "5", "6">>), I(123456)}

FormatRows ==
    {<<KeyHeaderBackgroundColor, v>> : v \in ColorCells}
       \cup {<<KeyCellBackgroundColor, S(<<"#", "0", "0", "f", "f", "0", "0">>)>>,
             <<KeyHeaderTextColor, S(<<"r", "e", "d">>)>>,
             <<KeyFontName, S(<<"A", "r", "i", "a", "l">>)>>,
             <<KeyFontSize, I(12)>>,
             <<KeyFontSize, S(<<"b", "i", "g">>)>>,
             <<I(5), S(TxtX)>>}

FormattingSheets == {<<HdrPair>> \o rows : rows \in SeqsUpTo(FormatRows, MaxFormatRows)}

\* no sheet of the name
Absent == <<>>

Workbooks ==
    {[status |-> "ok",
      sheets |-> [name \in {n \in {"columns", "replace", "email", "formatting"} :
                               (CASE n = "columns" -> c [] n = "replace" -> r
                                  [] n = "email" -> e [] OTHER -> f) # Absent}
                     |-> CASE name = "columns" -> c [] name = "replace" -> r
                           [] name = "email" -> e [] OTHER -> f]] :
        c \in ColumnsSheets \cup {Absent}, r \in ReplaceSheets \cup {Absent},
        e \in EmailSheets \cup {Absent}, f \in FormattingSheets \cup {Absent}}
       \cup {[status |-> st, sheets |-> <<>>] : st \in {"corrupt", "unreachable"}}

\* process_emails before the instruction document is fetched, for the
\* documents and mailboxes given
InitLoad(documents, mailboxes) ==
    /\ file_content \in documents
    /\ emails_with_excel \in mailboxes
    /\ instructions = None
    /\ df = EmptyFrame
    /\ result_df = EmptyFrame
    /\ processing_stats = [processed_rows |-> 0, applied_rules |-> 0,
                           created_columns |-> 0, formatted_date_columns |-> 0]
    /\ pc = "load"
    /\ ci = 1
    /\ ri = 1
    /\ rules_applied = 0
    /\ col_log = <<>>
    /\ hist = <<>>
    /\ directives = None
    /\ fetched = FALSE
    /\ ei = 1
    /\ ai = 1
    /\ attempts = <<>>
    /\ processed_files = <<>>
    /\ seen = {}
    /\ outbox = <<>>
    /\ files = NoFiles
    /\ clock = 1
    /\ runs = <<>>

\* one unread email with one Excel attachment
OneFileMailboxes ==
    {<<Email(1, <<Attachment(t, TRUE)>>)>> : t \in Tables(EngineLabels, {S(TxtX)}, 1, 1)}

InitParse == InitLoad(Workbooks, OneFileMailboxes)

\* main.py lines 138-140, "if not instructions: return", with the parameter
\* being what get_processing_instructions returned: the run goes on to the
\* mailbox without the check
AfterLoadUnchecked(loaded) == "fetch"

\* main.py lines 138-140: the run ends when no instruction set was loaded
AfterLoad(loaded) == IF loaded = None THEN "ended" ELSE "fetch"

\* process_emails, lines 134-140 of main.py: the instruction set is fetched
\* and parsed, and the run ends when there is none
LoadInstructions ==
    /\ pc = "load"
    /\ instructions' = GetProcessingInstructions(file_content)
    /\ pc' = AfterLoad(instructions')
    /\ UNCHANGED <<df, result_df, processing_stats, ci, ri, rules_applied, col_log,
                   hist, file_content, directives, loopVars, attempts, files, clock,
                   runs>>

\* main.py lines 146-154: the unread emails are fetched, and the run ends when
\* there is none
FetchEmails ==
    /\ pc = "fetch"
    /\ fetched' = TRUE
    /\ pc' = IF emails_with_excel = <<>> THEN "ended" ELSE "next"
    /\ UNCHANGED <<instructions, df, result_df, processing_stats, ci, ri,
                   rules_applied, col_log, hist, file_content, directives,
                   emails_with_excel, ei, ai, processed_files, seen, outbox,
                   attempts, files, clock, runs>>

\* main.py lines 157-164 and process_file lines 68-91: the next attachment is
\* taken, its bytes are written to a temporary file and read; pd.read_excel
\* raises on bytes that are no workbook
BeginProcessFile ==
    /\ pc = "next"
    /\ ei <= Len(emails_with_excel)
    /\ LET attachment == emails_with_excel[ei].attachments[ai]
       IN /\ attempts' = Append(attempts, Attempt(ei, ai))
          /\ files' = FsWrite(files, InputPath(Len(attempts) + 1), attachment.content)
          /\ df' = IF attachment.readable THEN attachment.content ELSE df
          /\ pc' = IF attachment.readable THEN "columns" ELSE "failed"
    /\ result_df' = EmptyFrame
    /\ ci' = 1
    /\ ri' = 1
    /\ rules_applied' = 0
    /\ col_log' = <<>>
    /\ hist' = <<>>
    /\ directives' = None
    /\ UNCHANGED <<instructions, processing_stats, file_content, loopVars, clock, runs>>

NextParse == LoadInstructions \/ FetchEmails \/ BeginProcessFile \/ Next

(***************************************************************************)
(* process_emails, lines 157-190 of main.py: the result of an attachment   *)
(* is sent, a failure is logged, and the emails are flagged at the end.    *)
(***************************************************************************)
\* the loops of lines 157 and 161 step to the next attachment
NextAttachment(emails, e, a) ==
    IF a < Len(emails[e].attachments) THEN <<e, a + 1>> ELSE <<e + 1, 1>>

\* lines 162-186 with the try around both loops: an exception ends them
AfterExceptionAbort(emails, e, a) == <<Len(emails) + 1, 1>>

\* lines 162-186: the try is inside the loop of the attachments, so the loops
\* go on after "except Exception"
AfterException(emails, e, a) == NextAttachment(emails, e, a)

\* the message send_processed_file_v8 hands to the SMTP server
Message(email, attachment, table, stats) ==
    [email |-> email, attachment |-> attachment, table |-> table, stats |-> stats]

\* main.py lines 171-183 and send_processed_file_v8: the output file is
\* opened and attached and the message is sent, with the statistics of the
\* processor; the file is removed after the server accepted the message. open
\* raises when the file is missing, the SMTP connection may fail.
SendProcessedFile ==
    /\ pc = "done"
    /\ fetched
    /\ LET n == Len(attempts)
           output_path == attempts[n].output_path
       IN \E accepted \in BOOLEAN :
            IF accepted /\ output_path \in DOMAIN files
            THEN /\ outbox' = Append(outbox, Message(ei, ai, files[output_path],
                                                    processing_stats))
                 /\ files' = FsUnlink(files, output_path)
                 /\ processed_files' = Append(processed_files, <<ei, ai>>)
                 /\ attempts' = [attempts EXCEPT ![n].send = "ok"]
                 /\ ei' = NextAttachment(emails_with_excel, ei, ai)[1]
                 /\ ai' = NextAttachment(emails_with_excel, ei, ai)[2]
            ELSE /\ attempts' = [attempts EXCEPT ![n].send = "failed"]
                 /\ ei' = AfterException(emails_with_excel, ei, ai)[1]
                 /\ ai' = AfterException(emails_with_excel, ei, ai)[2]
                 /\ UNCHANGED <<outbox, files, processed_files>>
    /\ pc' = "next"
    /\ UNCHANGED <<instructions, df, result_df, processing_stats, ci, ri,
                   rules_applied, col_log, hist, file_content, directives,
                   emails_with_excel, fetched, seen, clock, runs>>

\* main.py lines 185-186: process_file raised, the error is logged
HandleFailure ==
    /\ pc \in {"failed", "raised"}
    /\ fetched
    /\ ei' = AfterException(emails_with_excel, ei, ai)[1]
    /\ ai' = AfterException(emails_with_excel, ei, ai)[2]
    /\ pc' = "next"
    /\ UNCHANGED <<instructions, df, result_df, processing_stats, ci, ri,
                   rules_applied, col_log, hist, file_content, directives,
                   emails_with_excel, fetched, processed_files, seen, outbox,
                   attempts, files, clock, runs>>

\* main.py lines 188-190 and mark_emails_as_read: when a file was processed
\* every fetched email is flagged; an exception of the mailbox is logged and
\* leaves the flags as they were
MarkEmailsAsRead ==
    /\ pc = "next"
    /\ ei > Len(emails_with_excel)
    /\ \E flagged \in BOOLEAN :
          seen' = IF processed_files # <<>> /\ flagged
                  THEN seen \cup {emails_with_excel[k].uid :
                                    k \in 1..Len(emails_with_excel)}
                  ELSE seen
    /\ pc' = "ended"
    /\ UNCHANGED <<instructions, df, result_df, processing_stats, ci, ri,
                   rules_applied, col_log, hist, file_content, directives,
                   emails_with_excel, fetched, ei, ai, processed_files, outbox,
                   attempts, files, clock, runs>>

NextRun == NextParse \/ SendProcessedFile \/ HandleFailure \/ MarkEmailsAsRead

(***************************************************************************)
(* Inputs of a run: instruction documents and mailboxes.                   *)
(***************************************************************************)
MaxEmails == 2        \* unread emails with Excel attachments
MaxAttachments == 2   \* Excel attachments of an email

\* an instruction document that loads, one whose font_size is no number, one
\* that is no workbook and one that cannot be downloaded
RunDocuments ==
    {[status |-> "ok",
      sheets |-> [columns |-> <<HdrColumns, <<SrcA, ColT, None, None>>,
                                <<SrcA, ColProekt, ActCreate, None>>>>,
                  replace |-> <<<<S(<<"c", "o", "l", "u", "m", "n">>), S(<<"f", "i", "n", "d">>), S(<<"r", "e", "p", "l", "a", "c", "e">>)>>,
                                <<ColT, S(TxtX), S(TxtY)>>>>]],
     [status |-> "ok",
      sheets |-> [columns |-> <<HdrColumns, <<SrcA, ColT, None, None>>>>,
                  formatting |-> <<HdrPair, <<KeyFontSize, S(<<"b", "i", "g">>)>>>>]],
     [status |-> "corrupt", sheets |-> <<>>],
     [status |-> "unreachable", sheets |-> <<>>]}

\* attachments pd.read_excel reads and attachments it rejects
RunAttachments ==
    {Attachment(CHOOSE t \in Tables(EngineLabels, {S(TxtX)}, 1, 1) : t.nrows = 1,
                readable) : readable \in BOOLEAN}

\* the emails carry their position as uid
InitRun ==
    \E n \in 0..MaxEmails :
        InitLoad(RunDocuments,
                 {[k \in 1..n |-> Email(k, lists[k])] :
                    lists \in [1..n -> SeqsUpTo(RunAttachments, MaxAttachments) \ {<<>>}]})

\* one run of process_emails
SpecRun == InitRun /\ [][NextRun]_vars

(***************************************************************************)
(* Two runs of the program at overlapping times.  Each run is a process of *)
(* its own; the runs share the temporary directory and the clock.  A run   *)
(* is taken from the point where process_file has built its result_df.     *)
(***************************************************************************)
MaxMinute == 2    \* minutes the clock shows while the runs overlap

\* the state of a process that is not one of the two runs
processVars == <<instructions, df, result_df, processing_stats, pc, ci, ri,
                 rules_applied, col_log, hist, file_content, directives,
                 loopVars, attempts>>

\* a run with the table it built from its input
Run(table) ==
    [result_df |-> table, pc |-> "create", output_path |-> <<>>,
     send |-> "none", delivered |-> EmptyFrame]

\* the tables of the runs
OverlapTables == Tables(EngineLabels, {S(TxtX), S(TxtY)}, 1, 1)

InitOverlap ==
    /\ runs \in {<<Run(t1), Run(t2)>> : t1 \in OverlapTables, t2 \in OverlapTables}
    /\ runs[1].result_df # runs[2].result_df
    /\ files = NoFiles
    /\ clock = 1
    /\ instructions = None
    /\ file_content = None
    /\ df = EmptyFrame
    /\ result_df = EmptyFrame
    /\ processing_stats = [processed_rows |-> 0, applied_rules |-> 0,
                           created_columns |-> 0, formatted_date_columns |-> 0]
    /\ pc = "overlap"
    /\ ci = 1
    /\ ri = 1
    /\ rules_applied = 0
    /\ col_log = <<>>
    /\ hist = <<>>
    /\ directives = None
    /\ emails_with_excel = <<>>
    /\ fetched = FALSE
    /\ ei = 1
    /\ ai = 1
    /\ attempts = <<>>
    /\ processed_files = <<>>
    /\ seen = {}
    /\ outbox = <<>>

\* _create_output_file_v8 of run r: the table is written and moved to the path
\* named after the minute
RunCreateOutputFile(r) ==
    /\ runs[r].pc = "create"
    /\ files' = CreateOutputFile(files, r, clock, runs[r].result_df, TRUE)
    /\ runs' = [runs EXCEPT ![r].pc = "send", ![r].output_path = OutputPath(clock)]
    /\ UNCHANGED <<clock, processVars>>

\* send_processed_file_v8 of run r: open raises when the file is missing, the
\* SMTP connection may fail; the file is removed after the message was sent
RunSendProcessedFile(r) ==
    /\ runs[r].pc = "send"
    /\ \E accepted \in BOOLEAN :
          IF accepted /\ runs[r].output_path \in DOMAIN files
          THEN /\ runs' = [runs EXCEPT ![r].pc = "ended", ![r].send = "ok",
                                       ![r].delivered = files[runs[r].output_path]]
               /\ files' = FsUnlink(files, runs[r].output_path)
          ELSE /\ runs' = [runs EXCEPT ![r].pc = "ended", ![r].send = "failed"]
               /\ UNCHANGED files
    /\ UNCHANGED <<clock, processVars>>

\* a minute passes
Tick ==
    /\ runs # <<>>
    /\ clock < MaxMinute
    /\ clock' = clock + 1
    /\ UNCHANGED <<runs, files, processVars>>

NextOverlap ==
    \/ \E r \in 1..Len(runs) : RunCreateOutputFile(r)
    \/ \E r \in 1..Len(runs) : RunSendProcessedFile(r)
    \/ Tick

SpecOverlap == InitOverlap /\ [][NextOverlap]_vars

\* the instruction document is fetched and parsed, then process_file runs
SpecParse == InitParse /\ [][NextParse]_vars

(***************************************************************************)
(* Inputs of the header matching of _parse_columns_sheet_v8_1: sheets      *)
(* 'columns' holding the source column and some of the target, action,     *)
(* value and is_date columns, in every order.                              *)
(***************************************************************************)
\* the columns of the full sheet, header first: source, target, action,
\* value, is_date
FullColumns ==
    <<<<S(<<"s", "o", "u", "r", "c", "e", "_", "n", "a", "m", "e">>), SrcA, SrcA>>,
      <<S(<<"t", "a", "r", "g", "e", "t", "_", "n", "a", "m", "e">>), ColT, ColProekt>>,
      <<S(<<"a", "c", "t", "i", "o", "n">>), None, ActCreate>>,
      <<S(<<"v", "a", "l", "u", "e">>), None, S(TxtV)>>,
      <<S(<<"i", "s", "_", "d", "a", "t", "e">>), S(<<"d", "a">>), None>>>>

\* the arrangements of some of the columns that keep the source column
Arrangements ==
    {p \in UNION {[1..n -> 1..5] : n \in 1..5} :
        /\ \A i, j \in DOMAIN p : i # j => p[i] # p[j]
        /\ \E i \in DOMAIN p : p[i] = 1}

\* the sheet of `rows` data rows whose columns are those the arrangement picks
ArrangedSheet(p, rows) ==
    [r \in 1..(rows + 1) |-> [c \in DOMAIN p |-> FullColumns[p[c]][r]]]

HeaderSheets == {ArrangedSheet(p, rows) : p \in Arrangements, rows \in 1..2}

WideReplaceSheet ==
    <<<<S(<<"c", "o", "l", "u", "m", "n">>), S(<<"f", "i", "n", "d">>), S(<<"r", "e", "p", "l", "a", "c", "e">>), S(<<"p", "r", "o", "j", "e", "c", "t">>), S(<<"p", "r", "o", "j", "e", "c", "t", "2">>)>>,
      <<S(<<"t", " ">>), S(TxtX), S(TxtY), S(TxtP), None>>>>

\* process_emails before the instruction document is fetched, the document
\* holding one of the arranged sheets 'columns'
InitHeaders ==
    InitLoad({[status |-> "ok",
               sheets |-> [columns |-> c, replace |-> WideReplaceSheet]] :
                 c \in HeaderSheets},
             OneFileMailboxes)

\* the instruction document with an arranged sheet 'columns' is parsed, then
\* process_file runs
SpecHeaders == InitHeaders /\ [][NextParse]_vars

(***************************************************************************)
(* Inputs of the column widths: one input column 'A' copied as 'T', with   *)
(* cells whose text is short, longer than 8, longer than 48, or that are   *)
(* false values or empty.                                                  *)
(***************************************************************************)
MaxWidthRows == 2    \* rows of an input table, column widths

\* the text of n characters c
Repeat(c, n) == [k \in 1..n |-> c]

WidthCells ==
    {S(TxtX), S(Repeat("w", 12)), S(Repeat("w", 48)), S(Repeat("w", 60)),
     I(0), B(FALSE), NaN}

InitWidths == InitWith(Tables(EngineLabels, WidthCells, 1, MaxWidthRows),
                       {<<Cfg(SrcA, ColT, ActCopy, None, FALSE)>>,
                        <<Cfg(SrcA, S(Repeat("H", 14)), ActCopy, None, FALSE)>>},
                       DateRuleLists)

\* process_file over the inputs of the column widths
SpecWidths == InitWidths /\ [][Next]_vars

(***************************************************************************)
(* A second run of the replace-rule engine on the table the first run      *)
(* left: _apply_replace_rules(result_df) called once more, with the same   *)
(* instructions.                                                           *)
(***************************************************************************)
RuleCapY == Rule(ColT, S(<<"Y">>), S(TxtR), None, None)

RerunRules == {RuleXY, RuleYR, RuleCapY, RuleFive}

InitRerun == InitWith(Tables(EngineLabels, InCells, MaxInCols, MaxRuleRows),
                      EngineColumnLists,
                      SeqsUpTo(RerunRules, MaxRules))

ReapplyReplaceRules ==
    /\ pc = "done"
    /\ result_df' = ApplyReplaceRules(result_df, instructions.replace_rules)
    /\ processing_stats' =
          [processing_stats EXCEPT
              !.applied_rules =
                  CountAppliedRules(result_df, instructions.replace_rules)]
    /\ pc' = "reapplied"
    /\ UNCHANGED <<instructions, df, ci, ri, rules_applied, col_log, hist,
                   file_content, directives, loopVars, attempts, files, clock, runs>>

NextRerun == Next \/ ReapplyReplaceRules

\* process_file followed by a second run of the replace-rule engine
SpecRerun == InitRerun /\ [][NextRerun]_vars

(***************************************************************************)
(* Column projection (process_file, lines 86-147)                          *)
(***************************************************************************)
\* result_df as it left the loop over the col_configs
Projected == IF hist = <<>> THEN result_df ELSE hist[1]

ColumnsDone == pc \in {"rules", "done"}

\* the col_config has one of the actions process_file handles
Recognised(cfg) == cfg.action \in {ActCreate, ActCopy, None}

\* no later handled col_config writes the same target
LastWriter(k) ==
    \A j \in (k + 1)..Len(instructions.columns) :
        Recognised(instructions.columns[j]) =>
            instructions.columns[j].target_name # instructions.columns[k].target_name

TargetNames(cfgs) == [k \in 1..Len(cfgs) |-> cfgs[k].target_name]

\* q without the repetitions of earlier members
RECURSIVE FirstOccurrences(_)
FirstOccurrences(q) ==
    IF q = <<>> THEN <<>>
    ELSE LET before == FirstOccurrences(SubSeq(q, 1, Len(q) - 1))
         IN IF \E a \in 1..Len(before) : before[a] = q[Len(q)]
            THEN before ELSE Append(before, q[Len(q)])

\* C1 as stated: the output table has exactly len(columns) columns, the i-th
\* named by the i-th ColumnSpec.
C1_OneColumnPerSpec ==
    (ColumnsDone /\ \A k \in 1..Len(instructions.columns) :
                        Recognised(instructions.columns[k]))
    => result_df.columns = TargetNames(instructions.columns)

\* C1 amended: the output table has one column per distinct target name of the
\* ColumnSpecs with action create or copy, in the order of the first ColumnSpec
\* naming each target, and a resolved plain copy that is the last writer of
\* its target is the input column cell for cell.
C1_OneColumnPerTarget ==
    ColumnsDone =>
        /\ Projected.columns =
               FirstOccurrences(TargetNames(SelectSeq(instructions.columns, Recognised)))
        /\ result_df.columns = Projected.columns
        /\ \A k \in 1..Len(instructions.columns) :
              LET cfg == instructions.columns[k]
              IN (cfg.action = ActCopy /\ col_log[k] # None /\ ~cfg.is_date
                     /\ LastWriter(k))
                 => GetColumn(Projected, cfg.target_name) = GetColumn(df, col_log[k])

\* two ColumnSpecs share a target name and the table has a single column
C1_Witness ==
    /\ pc = "done"
    /\ Len(instructions.columns) = 2
    /\ Recognised(instructions.columns[1]) /\ Recognised(instructions.columns[2])
    /\ instructions.columns[1].target_name = instructions.columns[2].target_name
    /\ instructions.columns[2].action = ActCopy /\ col_log[2] # None
    /\ Len(result_df.columns) = 1
    /\ df.nrows > 0

\* C2: the output table has as many rows as the input table, and processed_rows
\* records that number.
C2_RowCountPreserved ==
    (pc = "done" /\ instructions.columns # <<>>) =>
        /\ result_df.nrows = df.nrows
        /\ processing_stats.processed_rows = df.nrows

\* C3: every row of a created column holds fixedValue, or '' when it is unset,
\* and '' for the target 'proekt'.  (Stated for targets other than
\* 'Ekspeditor', to which line 111 gives a default of its own, and for the
\* ColumnSpec that writes its target last.)
C3_CreatedColumnFilled ==
    ColumnsDone =>
        \A k \in 1..Len(instructions.columns) :
            LET cfg == instructions.columns[k]
            IN (cfg.action = ActCreate /\ LastWriter(k)
                   /\ cfg.target_name # ColEkspeditor)
               => /\ HasColumn(Projected, cfg.target_name)
                  /\ \A r \in 1..Projected.nrows :
                        GetColumn(Projected, cfg.target_name)[r] =
                           IF cfg.target_name = ColProekt \/ cfg.value = None
                           THEN EmptyStr ELSE cfg.value

\* C4: a copy ColumnSpec whose source is absent from the input table yields its
\* target column with '' in every row.
C4_AbsentSourceEmptyColumn ==
    ColumnsDone =>
        \A k \in 1..Len(instructions.columns) :
            LET cfg == instructions.columns[k]
            IN (/\ cfg.action = ActCopy
                /\ LastWriter(k)
                /\ \A c \in 1..Len(df.columns) :
                      ~NameMatches(df.columns[c], cfg.source_name))
               => /\ HasColumn(Projected, cfg.target_name)
                  /\ \A r \in 1..Projected.nrows :
                        GetColumn(Projected, cfg.target_name)[r] = EmptyStr

(***************************************************************************)
(* Column lookup (_find_column_case_insensitive and its use at lines       *)
(* 124-125)                                                                *)
(***************************************************************************)
\* the positions of the columns of frame whose label is name after
\* lower-casing and trimming both
MatchingPositions(frame, name) ==
    {c \in 1..Len(frame.columns) :
        Strip(Lower(Str(frame.columns[c]))) = Strip(Lower(Str(name)))}

FirstPosition(P) == CHOOSE c \in P : \A d \in P : c <= d

\* C5: the lookup yields the first input column whose name equals the requested
\* name after lower-casing and trimming, and 'not found' only when there is none.
C5_LookupFirstMatch ==
    \A k \in 1..Len(col_log) :
        LET cfg == instructions.columns[k]
            P == MatchingPositions(df, cfg.source_name)
        IN cfg.action = ActCopy =>
              col_log[k] = IF P = {} THEN None ELSE df.columns[FirstPosition(P)]

(***************************************************************************)
(* Replace-rule engine (_apply_replace_rules)                              *)
(***************************************************************************)
\* result_df before and after the k-th rule was handled
Before(k) == hist[k]
After(k) == IF k < Len(hist) THEN hist[k + 1] ELSE result_df

\* the rows of frame whose cell in column c reads like find_value
RowsReading(frame, c, find_value) ==
    {r \in 1..frame.nrows : Str(frame.data[c][r]) = Str(find_value)}

\* the rows of frame the rule matches, none when its column does not resolve
RowsMatched(frame, rule) ==
    LET P == MatchingPositions(frame, rule.column)
    IN IF P = {} THEN {} ELSE RowsReading(frame, FirstPosition(P), rule.find_value)

RowOf(frame, r) == [c \in 1..Len(frame.columns) |-> frame.data[c][r]]

\* one rule on one row
RowStep(cols, row, rule) ==
    LET P == {c \in 1..Len(cols) :
                 Strip(Lower(Str(cols[c]))) = Strip(Lower(Str(rule.column)))}
    IN IF P = {} \/ Str(row[FirstPosition(P)]) # Str(rule.find_value)
       THEN row
       ELSE [c \in 1..Len(cols) |->
               IF cols[c] = ColZayavka /\ rule.project_value2 # None
               THEN rule.project_value2
               ELSE IF cols[c] = ColProekt /\ rule.project_value # None
               THEN rule.project_value
               ELSE IF c = FirstPosition(P) THEN rule.replace_value
               ELSE row[c]]

\* the rules one after another on one row
RECURSIVE RowFold(_, _, _)
RowFold(cols, row, rules) ==
    IF rules = <<>> THEN row
    ELSE RowFold(cols, RowStep(cols, row, Head(rules)), Tail(rules))

\* C6: the rules are applied in list order, each on the values the earlier
\* rules left: every row of the final table is the row of the projected table
\* taken through the rules one after another.
C6_RulesInOrder ==
    pc = "done" =>
        /\ Len(hist) = Len(instructions.replace_rules)
        /\ result_df.columns = Projected.columns
        /\ result_df.nrows = Projected.nrows
        /\ \A r \in 1..result_df.nrows :
              RowOf(result_df, r) =
                 RowFold(Projected.columns, RowOf(Projected, r),
                         instructions.replace_rules)

\* the second rule matches nothing in the projected table and matches a value
\* the first rule wrote
C6_Witness ==
    /\ pc = "done"
    /\ Len(hist) = 2
    /\ RowsMatched(hist[1], instructions.replace_rules[2]) = {}
    /\ RowsMatched(hist[2], instructions.replace_rules[2]) # {}
    /\ result_df # hist[2]

\* C7: after a rule with a resolved column, every row whose cell in that column
\* read like findValue holds replaceValue in that column.
C7_ReplaceValueWritten ==
    \A k \in 1..Len(hist) :
        LET rule == instructions.replace_rules[k]
            P == MatchingPositions(Before(k), rule.column)
        IN P # {} =>
              \A r \in RowsReading(Before(k), FirstPosition(P), rule.find_value) :
                  After(k).data[FirstPosition(P)][r] = rule.replace_value

\* the side-effect write of one rule into the column named exactly name
SideEffectHolds(before, after, rule, name, value) ==
    LET mask == RowsMatched(before, rule)
        target == FirstPosition(MatchingPositions(before, rule.column))
    IN \A c \in 1..Len(before.columns) :
          IF before.columns[c] = name /\ value # None
          THEN \A r \in 1..before.nrows :
                  after.data[c][r] = IF r \in mask THEN value ELSE before.data[c][r]
          ELSE (/\ Lower(Str(before.columns[c])) = Lower(Str(name))
                /\ c # target
                /\ before.columns[c] \notin {ColProekt, ColZayavka})
               => after.data[c] = before.data[c]

\* C8: when a rule matches, projectValue is written into the column named
\* exactly 'proekt' for exactly the matched rows iff it is set and the column
\* exists, likewise projectValue2 and 'Zayavka'; a column whose name differs
\* in letter case only is not written.
C8_SideEffectColumns ==
    \A k \in 1..Len(hist) :
        LET rule == instructions.replace_rules[k]
        IN RowsMatched(Before(k), rule) # {} =>
              /\ SideEffectHolds(Before(k), After(k), rule, ColProekt,
                                 rule.project_value)
              /\ SideEffectHolds(Before(k), After(k), rule, ColZayavka,
                                 rule.project_value2)
              /\ \A c \in 1..Len(Before(k).columns) :
                    (/\ Before(k).columns[c] = ColProekt
                     /\ rule.project_value = None
                     /\ c # FirstPosition(MatchingPositions(Before(k), rule.column)))
                    => After(k).data[c] = Before(k).data[c]
              /\ \A c \in 1..Len(Before(k).columns) :
                    (/\ Before(k).columns[c] = ColZayavka
                     /\ rule.project_value2 = None
                     /\ c # FirstPosition(MatchingPositions(Before(k), rule.column)))
                    => After(k).data[c] = Before(k).data[c]

\* a rule with projectValue matched some rows and not others, in a table that
\* holds both 'proekt' and 'Proekt'
C8_Witness ==
    \E k \in 1..Len(hist) :
        LET rule == instructions.replace_rules[k]
            mask == RowsMatched(Before(k), rule)
        IN /\ mask # {} /\ mask # 1..Before(k).nrows
           /\ rule.project_value # None
           /\ HasColumn(Before(k), ColProekt)
           /\ HasColumn(Before(k), ColProektCap)
           /\ \E r \in mask : GetColumn(After(k), ColProekt)[r] = rule.project_value

\* C9: applied_rules is the number of rules that matched at least one row when
\* they were applied.
C9_AppliedRulesCount ==
    pc = "done" =>
        processing_stats.applied_rules =
           Cardinality({k \in 1..Len(instructions.replace_rules) :
                           RowsMatched(hist[k], instructions.replace_rules[k]) # {}})

\* of two rules one matched and the other either did not resolve or matched
\* no row
C9_Witness ==
    /\ pc = "done"
    /\ Len(hist) = 2
    /\ processing_stats.applied_rules = 1
    /\ \E k \in 1..2 :
          /\ MatchingPositions(hist[k], instructions.replace_rules[k].column) # {}
          /\ RowsMatched(hist[k], instructions.replace_rules[k]) = {}
          /\ hist[k].nrows > 0

\* C10: a rule whose column resolves to no column of the output table leaves
\* the table unchanged, and the rules after it are still handled.
C10_UnresolvedRuleSkipped ==
    /\ \A k \in 1..Len(hist) :
          MatchingPositions(Before(k), instructions.replace_rules[k].column) = {}
             => After(k) = Before(k)
    /\ pc = "done" => Len(hist) = Len(instructions.replace_rules)

\* the first rule names the input column that was renamed by its ColumnSpec;
\* the second rule is applied after it
C10_Witness ==
    /\ pc = "done"
    /\ Len(hist) = 2
    /\ HasColumn(df, instructions.replace_rules[1].column)
    /\ MatchingPositions(hist[1], instructions.replace_rules[1].column) = {}
    /\ RowsMatched(hist[1], Rule(ColT, instructions.replace_rules[1].find_value,
                                 None, None, None)) # {}
    /\ hist[2] = hist[1]
    /\ result_df # hist[2]
    /\ processing_stats.applied_rules = 1

(***************************************************************************)
(* Idempotence of the replace-rule engine                                  *)
(***************************************************************************)
\* no rule of the list matches a row of the table
NoRuleMatches(frame, rules) ==
    \A k \in 1..Len(rules) : RowsMatched(frame, rules[k]) = {}

\* C11 as stated: a second run of the Replace-Rule Engine with the same rule
\* list on the table the first run produced changes no cell.
C11_SecondRunChangesNothing ==
    [][ReapplyReplaceRules => result_df' = result_df]_vars

\* C11 amended: a second run of the Replace-Rule Engine with the same rule list
\* changes no cell of the table the first run produced when no rule of the
\* list matches a row of that table.
C11_SecondRunFixedPoint ==
    [][(ReapplyReplaceRules /\ NoRuleMatches(result_df, instructions.replace_rules))
          => result_df' = result_df]_vars

\* the first run rewrote cells, no rule matches the table it left, and the
\* second run has been made
C11_Witness ==
    /\ pc = "reapplied"
    /\ Len(hist) = 2
    /\ hist[1] # hist[2]
    /\ result_df.nrows > 0
    /\ NoRuleMatches(result_df, instructions.replace_rules)
    /\ processing_stats.applied_rules = 0
    /\ processing_stats.processed_rows = result_df.nrows

(***************************************************************************)
(* Date formatter (_format_date_column)                                    *)
(***************************************************************************)
\* the k-th col_config is a resolved copy with is_date set whose target no
\* later col_config writes
DateColumn(k) ==
    /\ k <= Len(col_log)
    /\ instructions.columns[k].action = ActCopy
    /\ instructions.columns[k].is_date
    /\ col_log[k] # None
    /\ LastWriter(k)

\* the cells of the k-th col_config's source column and of its target column
\* as the projection left it
CellsIn(k) == GetColumn(df, col_log[k])
CellsOut(k) == GetColumn(Projected, instructions.columns[k].target_name)

\* texts of the inputs that no candidate format parses and that are no date
UnparseableTexts == {TxtJunk, TxtBadIso}

\* C12: the Date Formatter never raises: every cell of a date column comes out
\* as a string, '' for a null cell, the original text for a text that is no
\* date, and a cell that is a date is formatted whatever the other cells of
\* the column hold.
C12_FormatterNeverRaises ==
    ColumnsDone =>
        \A k \in 1..Len(instructions.columns) :
            DateColumn(k) =>
                /\ Len(CellsOut(k)) = Len(CellsIn(k))
                /\ \A r \in 1..Len(CellsIn(k)) :
                      /\ CellsOut(k)[r].t = "str"
                      /\ CellsIn(k)[r] = NaN => CellsOut(k)[r] = EmptyStr
                      /\ (CellsIn(k)[r].t = "str" /\ CellsIn(k)[r].s \in UnparseableTexts)
                            => CellsOut(k)[r] = CellsIn(k)[r]
                      /\ (/\ CellsIn(k)[r] \in {D(2025, 3, 7), S(TxtIso)}
                          /\ instructions.columns[k].date_format = S(FmtDMYDot))
                            => CellsOut(k)[r] = S(TxtDot)

\* a column holds a text that is no date, or a boolean, next to a date, and
\* the date is formatted
C12_Witness ==
    /\ pc = "done"
    /\ DateColumn(1)
    /\ instructions.columns[1].date_format = S(FmtDMYDot)
    /\ \E r1, r2 \in 1..df.nrows :
          /\ CellsIn(1)[r1] \in {S(TxtJunk), B(TRUE)}
          /\ CellsOut(1)[r1] = S(Str(CellsIn(1)[r1]))
          /\ CellsIn(1)[r2] = S(TxtIso)
          /\ CellsOut(1)[r2] = S(TxtDot)

TxtIsoApr3 == <<"2", "0", "2", "5", "-", "0", "4", "-", "0", "3">>
TxtIsoJan13 == <<"2", "0", "2", "5", "-", "0", "1", "-", "1", "3">>

\* the date each text of the inputs is under the first candidate format that
\* parses it, written as YYYY-MM-DD
ReadAs(txt) ==
    CASE txt = TxtIso -> TxtIso
      [] txt = TxtDot -> TxtIso
      [] txt = TxtDayFirst -> TxtIsoApr3
      [] txt = TxtMonthFirst -> TxtIsoJan13
      [] txt = TxtIsoTime -> TxtIso
      [] OTHER -> <<>>

\* C13: a textual date cell is read under the first of the candidate formats
\* YYYY-MM-DD, DD.MM.YYYY, DD/MM/YYYY, MM/DD/YYYY, YYYY-MM-DD HH:MM:SS that
\* parses it: a text valid both day-first and month-first is read day-first,
\* and month-first only when the day-first reading is no date.
C13_CandidateOrder ==
    ColumnsDone =>
        \A k \in 1..Len(instructions.columns) :
            (DateColumn(k) /\ instructions.columns[k].date_format = S(FmtYMD)) =>
                \A r \in 1..Len(CellsIn(k)) :
                    (CellsIn(k)[r].t = "str" /\ ReadAs(CellsIn(k)[r].s) # <<>>)
                       => CellsOut(k)[r] = S(ReadAs(CellsIn(k)[r].s))

\* a column holds '03/04/2025', read as the 3rd of April, and '01/13/2025',
\* read as the 13th of January
C13_Witness ==
    /\ pc = "done"
    /\ DateColumn(1)
    /\ instructions.columns[1].date_format = S(FmtYMD)
    /\ \E r1, r2 \in 1..df.nrows :
          /\ CellsIn(1)[r1] = S(TxtDayFirst) /\ CellsOut(1)[r1] = S(TxtIsoApr3)
          /\ CellsIn(1)[r2] = S(TxtMonthFirst) /\ CellsOut(1)[r2] = S(TxtIsoJan13)

\* the two-digit day, two-digit month and year of the dates of the inputs
DayText(v) == IF v = D(2025, 11, 23) THEN <<"2", "3">> ELSE <<"0", "7">>
MonthText(v) == IF v = D(2025, 11, 23) THEN <<"1", "1">> ELSE <<"0", "3">>
YearText == <<"2", "0", "2", "5">>

\* the date written in a numeric pattern, DD.MM.YYYY for any other pattern
NumericText(v, fmt) ==
    CASE fmt = FmtDMYSlash -> DayText(v) \o <<"/">> \o MonthText(v) \o <<"/">> \o YearText
      [] fmt = FmtDMYDash -> DayText(v) \o <<"-">> \o MonthText(v) \o <<"-">> \o YearText
      [] fmt = FmtYMD -> YearText \o <<"-">> \o MonthText(v) \o <<"-">> \o DayText(v)
      [] fmt = FmtMDY -> MonthText(v) \o <<"/">> \o DayText(v) \o <<"/">> \o YearText
      [] OTHER -> DayText(v) \o <<".">> \o MonthText(v) \o <<".">> \o YearText

\* the date a cell of the renderer's inputs holds: '07.03.2025' is the 7th of
\* March 2025
DateHeld(cell) == IF cell = S(TxtDot) THEN D(2025, 3, 7) ELSE cell

\* C14: a parsed date is rendered in the requested numeric pattern, day and
\* month zero-padded to two digits, and as DD.MM.YYYY for a dateFormat outside
\* the seven recognized patterns.
C14_NumericRendering ==
    ColumnsDone =>
        \A k \in 1..Len(instructions.columns) :
            (DateColumn(k)
                /\ instructions.columns[k].date_format.s \notin {FmtDMMMY, FmtDMMMMY}) =>
                \A r \in 1..Len(CellsIn(k)) :
                    CellsIn(k)[r] # NaN =>
                        CellsOut(k)[r] =
                           S(NumericText(DateHeld(CellsIn(k)[r]),
                                         instructions.columns[k].date_format.s))

\* the 7th of March 2025 is rendered as MM/DD/YYYY
C14_Witness ==
    /\ pc = "done"
    /\ DateColumn(1)
    /\ instructions.columns[1].date_format = S(FmtMDY)
    /\ \E r \in 1..df.nrows :
          /\ CellsIn(1)[r] = D(2025, 3, 7)
          /\ CellsOut(1)[r] = S(<<"0", "3", "/", "0", "7", "/", "2", "0", "2", "5">>)

\* the month-name table the claim names for a pattern and a locale
ClaimedMonths(fmt, loc) ==
    IF fmt = FmtDMMMY
    THEN (IF loc = LocEn THEN MonthsEn ELSE MonthsRu)
    ELSE (IF loc = LocEn THEN MonthsEnFull ELSE MonthsRuFull)

\* C15: DD MMM YYYY renders the abbreviated and DD MMMM YYYY the full month
\* name of the locale when it is ru or en, and of the Russian table for every
\* other dateLocale.
C15_MonthNames ==
    ColumnsDone =>
        \A k \in 1..Len(instructions.columns) :
            (DateColumn(k)
                /\ instructions.columns[k].date_format.s \in {FmtDMMMY, FmtDMMMMY}) =>
                \A r \in 1..Len(CellsIn(k)) :
                    CellsIn(k)[r] # NaN =>
                        CellsOut(k)[r] =
                           S(DayText(DateHeld(CellsIn(k)[r])) \o <<" ">>
                               \o ClaimedMonths(instructions.columns[k].date_format.s,
                                                instructions.columns[k].date_locale.s)
                                      [MonthOf(DateHeld(CellsIn(k)[r]))]
                               \o <<" ">> \o YearText)

\* the calendar date a cell of the parser's inputs holds, NaN for a cell that
\* holds none
CalendarDate(cell) ==
    CASE cell.t = "date" -> cell
      [] cell \in {S(TxtIso), S(TxtDot), S(TxtIsoTime), S(TxtYearSlash)} -> D(2025, 3, 7)
      [] cell = S(TxtDayFirst) -> D(2025, 4, 3)
      [] cell = S(TxtMonthFirst) -> D(2025, 1, 13)
      [] cell = S(TxtOldIso) -> D(999, 1, 1)
      [] OTHER -> NaN

\* C16: a calendar date formatted as YYYY-MM-DD and parsed again under the
\* YYYY-MM-DD candidate format is the same year, month and day.
C16_RoundTrip ==
    ColumnsDone =>
        \A k \in 1..Len(instructions.columns) :
            (DateColumn(k) /\ instructions.columns[k].date_format = S(FmtYMD)) =>
                \A r \in 1..Len(CellsIn(k)) :
                    CalendarDate(CellsIn(k)[r]) # NaN =>
                        Strptime(CellsOut(k)[r].s, "YMD", "-")
                           = CalendarDate(CellsIn(k)[r])


(***************************************************************************)
(* C17 - C20: the instruction parser and the styling of the output sheet.  *)
(***************************************************************************)
\* the instruction set has been returned to process_emails
Loaded == pc # "load" /\ instructions # None

SheetPresent(name) == file_content.status = "ok" /\ name \in DOMAIN file_content.sheets

NoFormattingSheet == file_content.status = "ok" /\ ~SheetPresent("formatting")

\* C17: when the workbook has no sheet 'formatting', the parsed instruction
\* set carries the default formatting (font Calibri, size 10, header background
\* DDDDDD, header text 000000, cell background FFFFFF), and the output sheet
\* gets that font and header background and no cell background fill.
C17_DefaultFormatting ==
    NoFormattingSheet =>
        /\ pc # "raised"
        /\ Loaded =>
              /\ DictGet(instructions.formatting, KeyFontName, None) = S(<<"C", "a", "l", "i", "b", "r", "i">>)
              /\ IntOf(DictGet(instructions.formatting, KeyFontSize, None)) = I(10)
              /\ DictGet(instructions.formatting, KeyHeaderBackgroundColor, None)
                    = S(<<"D", "D", "D", "D", "D", "D">>)
              /\ DictGet(instructions.formatting, KeyHeaderTextColor, None)
                    = S(<<"0", "0", "0", "0", "0", "0">>)
              /\ DictGet(instructions.formatting, KeyCellBackgroundColor, None)
                    = S(<<"F", "F", "F", "F", "F", "F">>)
        /\ pc = "done" =>
              /\ directives.font_name = S(<<"C", "a", "l", "i", "b", "r", "i">>)
              /\ directives.font_size = I(10)
              /\ directives.header_fill = S(<<"D", "D", "D", "D", "D", "D">>)
              /\ directives.cell_fill = None

C17_Witness ==
    /\ NoFormattingSheet
    /\ pc = "done"
    /\ result_df.nrows > 0
    /\ directives.header_fill = S(<<"D", "D", "D", "D", "D", "D">>)


\* C18: parsing a workbook that can be opened and read never ends in a hard
\* failure, whatever the shape or cell types of its sheets: an instruction set
\* is always returned.
C18_AlwaysInstructionSet ==
    (pc # "load" /\ file_content.status = "ok") =>
        instructions # None


Unreadable == file_content.status = "corrupt"

\* C19 as stated: when the instruction document cannot be opened or read, the
\* parser raises a failure that reaches its caller, and no instruction set is
\* produced.
C19_RaisesParseFailure ==
    (pc # "load" /\ Unreadable) => instructions = Raised

\* C19 amended: when the instruction document cannot be opened or read, the
\* parser returns None to its caller, no instruction set is produced, and the
\* run ends without processing a file.
C19_ReturnsNone ==
    (pc # "load" /\ Unreadable) =>
        /\ instructions = None
        /\ pc = "ended"
        /\ result_df = EmptyFrame
        /\ directives = None

C19_Witness == Unreadable /\ pc = "ended" /\ instructions = None


\* a string of exactly six characters from 0-9 and A-F
SixHexDigits(v) ==
    /\ v.t = "str"
    /\ Len(v.s) = 6
    /\ \A k \in 1..6 : IsHexDigit(v.s[k]) /\ Upper(<<v.s[k]>>) = <<v.s[k]>>

\* the option names a colour
ColourOption(key) == Contains(KwColor, Lower(key.s))

\* C20: in every parsed formatting mapping each colour option is a string of
\* exactly six characters from 0-9 and A-F or is absent from the mapping, and
\* the colours the output sheet is styled with are such strings too (the default
\* colour standing in for an invalid value), no colour making the styling fail.
C20_ColourOptions ==
    /\ Loaded =>
          \A k \in 1..Len(instructions.formatting) :
              ColourOption(instructions.formatting[k][1]) =>
                  SixHexDigits(instructions.formatting[k][2])
    /\ pc = "raised" =>
          IntOf(DictGet(instructions.formatting, KeyFontSize, I(10))) = Raised
    /\ pc = "done" =>
          /\ SixHexDigits(directives.header_fill)
          /\ SixHexDigits(directives.header_font_color)


(***************************************************************************)
(* C21 - C30.                                                              *)
(***************************************************************************)
\* the place of a header in the order source, target, action, value, date
\* columns
HeaderRank(header) ==
    LET field == FieldOfHeader(Strip(Lower(Str(header))))
    IN CASE field = "source_name" -> 1
         [] field = "target_name" -> 2
         [] field = "action" -> 3
         [] field = "value" -> 4
         [] OTHER -> 5

\* the sheet with its columns put in the order source, target, action, value,
\* date columns (data cells moved with their header)
OrderedSheet(sheet) ==
    LET width == Len(sheet[1])
        place(c) == 1 + Cardinality({o \in 1..width :
                                        HeaderRank(sheet[1][o]) < HeaderRank(sheet[1][c])})
    IN [r \in 1..Len(sheet) |->
           [k \in 1..width |-> sheet[r][CHOOSE c \in 1..width : place(c) = k]]]

\* C21: parsing the sheet 'columns' does not depend on the order of its header
\* columns, also when some of the target, action, value or date headers are
\* missing: the col_configs are those of the sheet with its columns in the
\* order source, target, action, value, date.
C21_HeaderOrder ==
    (Loaded /\ SheetPresent("columns")) =>
        instructions.columns = ParseColumnsSheet(OrderedSheet(file_content.sheets["columns"]))


\* the data rows of the sheet 'columns' under the header row source_name,
\* target_name, action, value whose action is create
CreateRows ==
    IF SheetPresent("columns") /\ file_content.sheets["columns"][1] = HdrColumns
    THEN {k \in 2..Len(file_content.sheets["columns"]) :
             file_content.sheets["columns"][k][3] = ActCreate}
    ELSE {}

\* C22: a row of the sheet 'columns' whose action is create is accepted also
\* when its source-name cell is empty: it gives a col_config, and the output
\* table has the created column.
C22_CreateRowAccepted ==
    \A k \in CreateRows :
        LET row == file_content.sheets["columns"][k]
        IN /\ Loaded =>
                 \E c \in 1..Len(instructions.columns) :
                     /\ instructions.columns[c].target_name = row[2]
                     /\ instructions.columns[c].action = ActCreate
           /\ pc = "done" => HasColumn(result_df, row[2])


\* the table as rule k found it and as rule k left it
BeforeRule(k) == hist[k]

AfterRule(k) == IF k < Len(hist) THEN hist[k + 1] ELSE result_df

\* the cells rule k may write: the rows it matched, in its resolved column and
\* in the columns 'проект' and 'Заявка'
Writable(k, c, r) ==
    LET rule == instructions.replace_rules[k]
        P == MatchingPositions(BeforeRule(k), rule.column)
    IN /\ r \in RowsMatched(BeforeRule(k), rule)
       /\ \/ c = FirstPosition(P)
          \/ BeforeRule(k).columns[c] \in {ColProekt, ColZayavka}

\* C25: one replace rule changes only cells of the rows it matched, and only in
\* its resolved column, 'проект' and 'Заявка'; every other cell, the row count
\* and the column set stay, and a rule that matches no row leaves the table as
\* it was.
C25_RuleFrame ==
    \A k \in 1..Len(hist) :
        /\ AfterRule(k).columns = BeforeRule(k).columns
        /\ AfterRule(k).nrows = BeforeRule(k).nrows
        /\ \A c \in 1..Len(BeforeRule(k).columns) :
              \A r \in 1..BeforeRule(k).nrows :
                  AfterRule(k).data[c][r] # BeforeRule(k).data[c][r] => Writable(k, c, r)
        /\ RowsMatched(BeforeRule(k), instructions.replace_rules[k]) = {}
              => AfterRule(k) = BeforeRule(k)

\* a rule matched one of two rows and rewrote it, the other row standing
C25_Witness ==
    \E k \in 1..Len(hist) :
        /\ BeforeRule(k).nrows = 2
        /\ Cardinality(RowsMatched(BeforeRule(k), instructions.replace_rules[k])) = 1
        /\ AfterRule(k) # BeforeRule(k)


\* the text length of a cell of the output sheet, an empty cell having none
TextLength(v) == IF v \in {NaN, None} THEN 0 ELSE Len(Str(v))

\* the greatest text length among the cells of column c, header included
GreatestLength(frame, c) ==
    LET lengths == {TextLength(frame.columns[c])}
                      \cup {TextLength(frame.data[c][r]) : r \in 1..frame.nrows}
    IN CHOOSE m \in lengths : \A o \in lengths : o <= m

Clamp(n, low, high) == IF n < low THEN low ELSE IF n > high THEN high ELSE n

\* C26: the width of every column of the output sheet is min(max(L + 2, 10), 50)
\* for L the greatest text length among the column's cells, and lies between
\* 10 and 50.
C26_ColumnWidth ==
    pc = "done" =>
        /\ Len(directives.widths) = Len(result_df.columns)
        /\ \A c \in 1..Len(result_df.columns) :
              /\ directives.widths[c] = Clamp(GreatestLength(result_df, c) + 2, 10, 50)
              /\ directives.widths[c] \in 10..50

\* a column whose longest cell has more than 48 characters, beside a false
\* value the width computation passes over
C26_Witness ==
    /\ pc = "done"
    /\ \E c \in 1..Len(result_df.columns) :
          /\ GreatestLength(result_df, c) > 48
          /\ directives.widths[c] = 50
          /\ \E r \in 1..result_df.nrows : result_df.data[c][r] \in {I(0), B(FALSE)}

(***************************************************************************)
(* The run of process_emails                                               *)
(***************************************************************************)
\* the create actions executed for the attachment being handled
CreatedForFile ==
    Cardinality({k \in 1..Len(col_log) : instructions.columns[k].action = ActCreate})

\* the date columns formatted for the attachment being handled
FormattedForFile ==
    Cardinality({k \in 1..Len(col_log) :
                    /\ instructions.columns[k].action \in {ActCopy, None}
                    /\ col_log[k] # None
                    /\ instructions.columns[k].is_date})

\* C23: the statistics reported for a file describe that file alone:
\* created_columns is the number of create actions executed for it and
\* formatted_date_columns the number of date columns formatted for it, however
\* many files the run processed before it.
C23_StatisticsPerFile ==
    pc = "done" =>
        /\ processing_stats.created_columns = CreatedForFile
        /\ processing_stats.formatted_date_columns = FormattedForFile

\* the instruction set could not be loaded
LoadFailed == pc # "load" /\ instructions = None

\* C27: when the instruction set cannot be loaded the run ends without
\* fetching or processing an attachment, without sending a mail and without
\* marking an email as read.
C27_FailedLoadEndsRun ==
    LoadFailed =>
        /\ pc = "ended"
        /\ ~fetched
        /\ attempts = <<>>
        /\ DOMAIN files = {}
        /\ outbox = <<>>
        /\ seen = {}

\* the document cannot be read while two emails wait in the mailbox
C27_Witness ==
    /\ LoadFailed
    /\ pc = "ended"
    /\ file_content.status \in {"corrupt", "unreachable"}
    /\ Len(emails_with_excel) = 2

\* an attachment of the email was processed and sent
SentFor(e) ==
    \E k \in 1..Len(attempts) : attempts[k].email = e /\ attempts[k].send = "ok"

\* C28: at the end of a run an email is marked as read only if one of its own
\* attachments was processed and sent in the run; an email all of whose
\* attachments failed stays unread.
C28_ReadOnlyWhenSent ==
    pc = "ended" =>
        \A e \in 1..Len(emails_with_excel) :
            emails_with_excel[e].uid \in seen => SentFor(e)

\* the attachments before those of email e
RECURSIVE AttachmentsBefore(_, _)
AttachmentsBefore(emails, e) ==
    IF e <= 1 THEN 0
    ELSE AttachmentsBefore(emails, e - 1) + Len(emails[e - 1].attachments)

\* the run is over and the mailbox held an email
RunOver == pc = "ended" /\ fetched /\ emails_with_excel # <<>>

\* C29: every attachment of every fetched email is attempted exactly once, in
\* the order of the emails and then of the attachments, a failure of one
\* attachment does not keep a later one from being attempted, and a result is
\* sent only for an attachment process_file returned for.
C29_EveryAttachmentOnce ==
    /\ \A k \in 1..Len(attempts) :
          /\ attempts[k].email \in 1..Len(emails_with_excel)
          /\ attempts[k].attachment
                \in 1..Len(emails_with_excel[attempts[k].email].attachments)
          /\ k = AttachmentsBefore(emails_with_excel, attempts[k].email)
                    + attempts[k].attachment
          /\ attempts[k].send # "none" => attempts[k].returned
    /\ \A m \in 1..Len(outbox) :
          \E k \in 1..Len(attempts) :
              /\ attempts[k].email = outbox[m].email
              /\ attempts[k].attachment = outbox[m].attachment
              /\ attempts[k].returned
    /\ RunOver =>
          Len(attempts) = AttachmentsBefore(emails_with_excel,
                                            Len(emails_with_excel) + 1)

\* process_file raised for one attachment, the sending failed for another, and
\* an attachment after both was processed and sent
C29_Witness ==
    /\ RunOver
    /\ \E i, j, k \in 1..Len(attempts) :
          /\ i < k /\ j < k
          /\ ~attempts[i].returned
          /\ attempts[j].send = "failed"
          /\ attempts[k].send = "ok"

\* C30: every temporary file created for an attachment is gone once the
\* handling of the attachment has ended: the copy of the input when
\* process_file has returned or raised, the output file when
\* send_processed_file_v8 has returned or raised.
C30_NoTemporaryFileLeft ==
    /\ (fetched /\ pc \in {"done", "raised", "failed"}) =>
          InputPath(Len(attempts)) \notin DOMAIN files
    /\ (fetched /\ pc \in {"next", "ended"}) => DOMAIN files = {}

\* C24: two runs that handle different input files at overlapping times do not
\* interfere: the output file a run hands to the delivery holds the table the
\* run produced, and no run's output file is overwritten or deleted by the
\* other run before it is delivered.
C24_RunsDoNotInterfere ==
    \A r \in 1..Len(runs) :
        /\ runs[r].pc = "send" =>
              /\ runs[r].output_path \in DOMAIN files
              /\ files[runs[r].output_path] = runs[r].result_df
        /\ runs[r].send = "ok" => runs[r].delivered = runs[r].result_df

====
